---------------------------- MODULE Spec2Model ----------------------------
(***************************************************************************)
(* A model of the CLEH leaderboard service:                                *)
(*   - BatchSavingService          (src/src/services/BatchSavingService.ts)*)
(*   - LeaderboardProcessingService (same file, second half)               *)
(*   - RedisService                (src/src/services/RedisService.ts)      *)
(*   - WebSocketService            (src/unnamed/part_001)                  *)
(*   - DatabaseService             (src/unnamed/part_002)                  *)
(* The services share no in-process state: they are coupled only through   *)
(* Kafka topics and Redis keys.  Each is therefore given a specification   *)
(* of its own over the variables it owns (SpecBatch, SpecThrottle,         *)
(* SpecDiff, SpecHub); the variables of the other services stay at their   *)
(* initial values.                                                         *)
(***************************************************************************)
EXTENDS Integers, Sequences, FiniteSets, TLC

VARIABLES
  \* ---- BatchSavingService ----
  batch,           \* this.batch: the pending submissions
  saveInProgress,  \* this.saveInProgress
  flushPc,         \* where the one running flushBatch stands
  batchToSave,     \* flushBatch's local copy of the swapped-out batch
  attempt,         \* flushBatch's local attempt counter
  dlq,             \* DatabaseService: content of dead_letter_queue.json
  nextId,          \* identity of the next submission handed to addToBatch
  swapped,         \* history: the batch each flushBatch swapped out
  sinkCalls,       \* history: argument of every dbService.saveBatch call
  saved,           \* history: batches whose saveBatch call resolved
  lost,            \* history: batches logged "CRITICAL: Lost batch data"
  delays,          \* history: argument of every this.sleep call of flushBatch
  forced,          \* history: the last forceFlush call (what was pending,
                   \*   and the flush it started and awaits, 0 if none)
  accepted,        \* history: the last addToBatch call (its entry, and the
                   \*   flush it started and awaits, 0 if none)
  raised,          \* history: an error left addToBatch/flushBatch/forceFlush
  \* ---- process shutdown (SIGINT/SIGTERM handlers) ----
  shutdownPc,      \* where LeaderboardServer.shutdown stands
  gracePc,         \* where BatchSavingService.gracefulShutdown stands
  atSignal,        \* history: the entries in flight and pending at the signal
  \* ---- Redis (RedisService keys) ----
  leaderboard,     \* sorted set global:leaderboard: member -> score
  cacheKey,        \* string key leaderboard:cache (Null when absent)
  tsKey,           \* string key leaderboard:last_update (Null when absent)
  userCache,       \* string keys user:<id>: id -> JSON text
  storeLog,        \* history: the addScore/removePlayer calls made (SpecStore)
  topCall,         \* history: the last getTopPlayers call and what it returned
  \* ---- LeaderboardProcessingService ----
  pc,              \* where each processLeaderboardChange call stands
  call,            \* the locals of each processLeaderboardChange call
  published,       \* Kafka topic leaderboard_updates: the messages sent
  signals,         \* number of leaderboard_changes messages consumed so far
  storeTouched,    \* history: addScore has been called since the start
  changeTopic,     \* Kafka topic leaderboard_changes: the timestamps of the
                   \*   messages not yet consumed, the number sent, the clock
  \* ---- ScoreController ----
  requests,        \* where each submitScore request stands, and its history
  \* ---- findChangedRankings, applied to two snapshots ----
  oldLeaderboard,  \* the previous snapshot
  newLeaderboard,  \* the current snapshot
  changes,         \* Null, or the list findChangedRankings returned
  \* ---- generateChecksum, applied to two snapshots ----
  fingerprint,     \* the two snapshots, and Null or the two checksums
  \* ---- WebSocketService ----
  clients,         \* this.clients: the registered connections
  readyState,      \* readyState of every connection ("NEW": not yet made)
  inbox,           \* the messages each connection was sent
  wssClosed,       \* this.wss.close() was called
  hubOps,          \* number of broadcast/heartbeat passes made so far
  lastBroadcast,   \* history: what the last broadcast call found and counted
  broadcastCalls,  \* history: number of broadcast calls made so far
  lastHeartbeat    \* history: the sends that raised in the last sendHeartbeat

batchVars == <<batch, saveInProgress, flushPc, batchToSave, attempt, dlq,
               nextId, swapped, sinkCalls, saved, lost, delays>>

redisVars == <<leaderboard, cacheKey, tsKey, userCache>>

throttleVars == <<pc, call, published, signals, storeTouched>>

diffVars == <<oldLeaderboard, newLeaderboard, changes>>

hubVars == <<clients, readyState, inbox, wssClosed, hubOps, lastBroadcast,
             broadcastCalls, lastHeartbeat>>

batchAuxVars == <<forced, accepted, raised>>

shutdownVars == <<shutdownPc, gracePc, atSignal>>

queryVars == <<topCall>>

checksumVars == <<fingerprint>>

pipelineVars == <<changeTopic>>

submitVars == <<requests>>

vars == <<batchVars, batchAuxVars, shutdownVars, redisVars, storeLog,
          queryVars, throttleVars, pipelineVars, submitVars, diffVars,
          checksumVars, hubVars>>

\* What the steps of one service leave alone: the state of the others.
notBatchVars ==
  <<redisVars, storeLog, queryVars, throttleVars, pipelineVars, diffVars,
    checksumVars, submitVars, hubVars>>
notPipelineVars ==
  <<batchVars, batchAuxVars, shutdownVars, storeLog, queryVars, diffVars,
    checksumVars, submitVars, hubVars>>
notThrottleVars == <<notPipelineVars, pipelineVars>>
notDiffVars ==
  <<batchVars, batchAuxVars, shutdownVars, redisVars, storeLog, queryVars,
    throttleVars, pipelineVars, checksumVars, submitVars, hubVars>>
notHubVars ==
  <<batchVars, batchAuxVars, shutdownVars, redisVars, storeLog, queryVars,
    throttleVars, pipelineVars, diffVars, checksumVars, submitVars>>
notStoreVars ==
  <<batchVars, batchAuxVars, shutdownVars, cacheKey, tsKey, userCache,
    queryVars, throttleVars, pipelineVars, diffVars, checksumVars,
    submitVars, hubVars>>
notQueryVars ==
  <<batchVars, batchAuxVars, shutdownVars, redisVars, storeLog, throttleVars,
    pipelineVars, diffVars, checksumVars, submitVars, hubVars>>
notChecksumVars ==
  <<batchVars, batchAuxVars, shutdownVars, redisVars, storeLog, queryVars,
    throttleVars, pipelineVars, diffVars, submitVars, hubVars>>
notSubmitVars ==
  <<batchVars, batchAuxVars, shutdownVars, cacheKey, tsKey, userCache,
    storeLog, queryVars, throttleVars, pipelineVars, diffVars, checksumVars,
    hubVars>>

-----------------------------------------------------------------------------
(* Generic helpers *)

Range(s) == {s[i] : i \in DOMAIN s}

RECURSIVE Pow2(_)
Pow2(n) == IF n <= 0 THEN 1 ELSE 2 * Pow2(n - 1)

\* Number of positions of sequence s holding x.
Occurrences(s, x) == Cardinality({i \in DOMAIN s : s[i] = x})

\* A value that may be null: the empty set, or the singleton of the value.
Null == {}
Some(v) == {v}
Get(o) == CHOOSE v \in o : TRUE

Min(a, b) == IF a <= b THEN a ELSE b

-----------------------------------------------------------------------------
(* BatchSavingService *)

\* Configuration of the model: the batch threshold handed to the constructor
\* and the number of submissions the environment delivers.
batchSize == 2
MaxAccepts == 5

maxRetries == 3
retryDelay == 1000

BatchInit ==
  /\ batch = <<>>
  /\ saveInProgress = FALSE
  /\ flushPc = "idle"
  /\ batchToSave = <<>>
  /\ attempt = 0
  /\ dlq = <<>>
  /\ nextId = 1
  /\ swapped = <<>>
  /\ sinkCalls = <<>>
  /\ saved = <<>>
  /\ lost = <<>>
  /\ delays = <<>>
  /\ forced = [pending |-> <<>>, flush |-> 0]
  /\ accepted = [id |-> 0, flush |-> 0]
  /\ raised = FALSE
  /\ shutdownPc = "running"
  /\ gracePc = "idle"
  /\ atSignal = <<>>

\* The process has not exited.
Alive == shutdownPc # "exited"

\* DatabaseService.saveToDeadLetterQueue: the record appended to the file
\* (its timestamp field, the wall-clock time of the write, is left out).
\* (DeadLetterEntry_CountsAttempts: the variant whose count is the number of
\* saveBatch attempts.)
DeadLetterEntry_CountsAttempts(submissions) ==
  [count |-> maxRetries, submissions |-> submissions]
DeadLetterEntry(submissions) ==
  [count |-> Len(submissions), submissions |-> submissions]

\* BatchSavingService.saveToDeadLetterQueue(b): the file write either goes
\* through (ok) or throws; the catch block then logs the batch as lost.
\* (DLQ_Dropped: the variant that neither writes nor logs; DLQ_MixesPending:
\* the variant that writes this.batch along with the swapped-out batch.)
\* (DLQ_Rethrows: the variant whose catch block lets the error through.)
DLQ_Dropped(b, ok) ==
  /\ dlq' = dlq
  /\ lost' = lost
  /\ raised' = raised
DLQ_MixesPending(b, ok) ==
  /\ dlq' = Append(dlq, DeadLetterEntry(b \o batch))
  /\ lost' = lost
  /\ raised' = raised
DLQ_Rethrows(b, ok) ==
  IF ok
    THEN /\ dlq' = Append(dlq, DeadLetterEntry(b))
         /\ lost' = lost
         /\ raised' = raised
    ELSE /\ dlq' = dlq
         /\ lost' = Append(lost, b)
         /\ raised' = TRUE
saveToDeadLetterQueue(b, ok) ==
  IF ok
    THEN /\ dlq' = Append(dlq, DeadLetterEntry(b))
         /\ lost' = lost
         /\ raised' = raised
    ELSE /\ dlq' = dlq
         /\ lost' = Append(lost, b)
         /\ raised' = raised

\* flushBatch up to its first await, run on the pending batch b (the value of
\* this.batch when flushBatch is entered): the guard, the swap and the first
\* dbService.saveBatch call happen without yielding.
\* (Swap_KeepsPending: the variant that does not clear this.batch;
\* Flush_Reentrant: the variant without the saveInProgress guard.)
Flush_Reentrant(b) ==
  IF Len(b) = 0
    THEN /\ batch' = b
         /\ UNCHANGED <<saveInProgress, flushPc, batchToSave, attempt, swapped,
                      sinkCalls>>
    ELSE /\ saveInProgress' = TRUE
         /\ batchToSave' = b
         /\ batch' = <<>>
         /\ attempt' = 0
         /\ swapped' = Append(swapped, b)
         /\ sinkCalls' = Append(sinkCalls, b)
         /\ flushPc' = "saving"
Swap_KeepsPending(b) ==
  IF Len(b) = 0 \/ saveInProgress
    THEN /\ batch' = b
         /\ UNCHANGED <<saveInProgress, flushPc, batchToSave, attempt, swapped,
                      sinkCalls>>
    ELSE /\ saveInProgress' = TRUE
         /\ batchToSave' = b
         /\ batch' = b
         /\ attempt' = 0
         /\ swapped' = Append(swapped, b)
         /\ sinkCalls' = Append(sinkCalls, b)
         /\ flushPc' = "saving"
flushBatch(b) ==
  IF Len(b) = 0 \/ saveInProgress
    THEN /\ batch' = b
         /\ UNCHANGED <<saveInProgress, flushPc, batchToSave, attempt, swapped,
                      sinkCalls>>
    ELSE /\ saveInProgress' = TRUE
         /\ batchToSave' = b
         /\ batch' = <<>>
         /\ attempt' = 0
         /\ swapped' = Append(swapped, b)
         /\ sinkCalls' = Append(sinkCalls, b)
         /\ flushPc' = "saving"

\* The flush a call of flushBatch on pending batch b starts and then awaits:
\* its position in the sequence of flushes, 0 when flushBatch returns at once.
AwaitedFlush(b) ==
  IF Len(b) = 0 \/ saveInProgress THEN 0 ELSE Len(swapped) + 1

\* The threshold test of addToBatch on the length of the pending batch.
\* (ThresholdReached_Late: the variant that flushes one entry late.)
ThresholdReached_Late(length) == length > batchSize
ThresholdReached(length) == length >= batchSize

\* this.batch.push(submission)
\* (Pushed_Front: the variant that puts the submission first.)
Pushed_Front(b, submission) == <<submission>> \o b
Pushed(b, submission) == Append(b, submission)

\* addToBatch(submission): push, then await flushBatch when the threshold is
\* reached.
AddToBatch ==
  /\ UNCHANGED notBatchVars
  /\ Alive
  /\ nextId <= MaxAccepts
  /\ nextId' = nextId + 1
  /\ LET pushed == Pushed(batch, nextId)
     IN IF ThresholdReached(Len(pushed))
          THEN /\ flushBatch(pushed)
               /\ accepted' = [id |-> nextId, flush |-> AwaitedFlush(pushed)]
          ELSE /\ batch' = pushed
               /\ accepted' = [id |-> nextId, flush |-> 0]
               /\ UNCHANGED <<saveInProgress, flushPc, batchToSave, attempt,
                              swapped, sinkCalls>>
  /\ UNCHANGED <<dlq, saved, lost, delays, forced, raised, shutdownVars>>

\* A direct call of the public flushBatch().
FlushBatch ==
  /\ UNCHANGED notBatchVars
  /\ Alive
  /\ flushBatch(batch)
  /\ UNCHANGED <<dlq, nextId, saved, lost, delays, batchAuxVars, shutdownVars>>

\* forceFlush(): await flushBatch() when the pending batch is not empty.
ForceFlush ==
  /\ UNCHANGED notBatchVars
  /\ Alive
  /\ IF Len(batch) > 0
       THEN flushBatch(batch)
       ELSE UNCHANGED <<batch, saveInProgress, flushPc, batchToSave, attempt,
                        swapped, sinkCalls>>
  /\ forced' = [pending |-> batch, flush |-> AwaitedFlush(batch)]
  /\ UNCHANGED <<dlq, nextId, saved, lost, delays, accepted, raised,
                 shutdownVars>>

\* The awaited dbService.saveBatch resolves: success, the loop ends and the
\* flag is cleared in the same continuation.
SaveBatchResolves ==
  /\ UNCHANGED notBatchVars
  /\ Alive
  /\ flushPc = "saving"
  /\ saved' = Append(saved, batchToSave)
  /\ saveInProgress' = FALSE
  /\ flushPc' = "idle"
  /\ batchToSave' = <<>>
  /\ attempt' = 0
  /\ UNCHANGED <<batch, dlq, nextId, swapped, sinkCalls, lost, delays,
                 batchAuxVars, shutdownVars>>

\* The catch block retries while the attempts made are below maxRetries.
\* (MayRetry_Unbounded: the variant that always retries.)
MayRetry_Unbounded(made) == TRUE
MayRetry(made) == made < maxRetries

\* The backoff delay of the catch block after the given number of failed
\* attempts: this.retryDelay * Math.pow(2, attempt - 1).
\* (BackoffDelay_Constant: the variant that does not double.)
BackoffDelay_Constant(made) == retryDelay
BackoffDelay(made) == retryDelay * Pow2(made - 1)

\* The awaited dbService.saveBatch rejects: the catch block.
SaveBatchRejects ==
  /\ UNCHANGED notBatchVars
  /\ Alive
  /\ flushPc = "saving"
  /\ attempt' = attempt + 1
  /\ IF MayRetry(attempt + 1)
       THEN /\ delays' = Append(delays, BackoffDelay(attempt + 1))
            /\ flushPc' = "sleeping"
            /\ UNCHANGED <<dlq, lost, raised>>
       ELSE /\ \E ok \in BOOLEAN : saveToDeadLetterQueue(batchToSave, ok)
            /\ flushPc' = "deadLettered"
            /\ delays' = delays
  /\ UNCHANGED <<batch, saveInProgress, batchToSave, nextId, swapped,
                 sinkCalls, saved, forced, accepted, shutdownVars>>

\* The backoff sleep ends: the loop calls dbService.saveBatch again.
SleepDone ==
  /\ UNCHANGED notBatchVars
  /\ Alive
  /\ flushPc = "sleeping"
  /\ sinkCalls' = Append(sinkCalls, batchToSave)
  /\ flushPc' = "saving"
  /\ UNCHANGED <<batch, saveInProgress, batchToSave, attempt, dlq, nextId,
                 swapped, saved, lost, delays, batchAuxVars, shutdownVars>>

\* After the awaited saveToDeadLetterQueue: the loop ends, the flag is cleared.
FlushFinish ==
  /\ UNCHANGED notBatchVars
  /\ Alive
  /\ flushPc = "deadLettered"
  /\ saveInProgress' = FALSE
  /\ flushPc' = "idle"
  /\ batchToSave' = <<>>
  /\ attempt' = 0
  /\ UNCHANGED <<batch, dlq, nextId, swapped, sinkCalls, saved, lost, delays,
                 batchAuxVars, shutdownVars>>

BatchNext ==
  \/ AddToBatch
  \/ FlushBatch
  \/ ForceFlush
  \/ SaveBatchResolves
  \/ SaveBatchRejects
  \/ SleepDone
  \/ FlushFinish

-----------------------------------------------------------------------------
(* BatchSavingService fed by addToBatch calls that arrive at any time, also
   while a flush is in flight; nothing else calls flushBatch *)

AcceptsNext ==
  \/ AddToBatch
  \/ SaveBatchResolves
  \/ SaveBatchRejects
  \/ SleepDone
  \/ FlushFinish

-----------------------------------------------------------------------------
(* BatchSavingService driven by one caller that awaits each call, with a
   sink that succeeds *)

\* Every call made so far has returned: a running flush is awaited by the
\* call that started it, so this is the case exactly when no flush is running.
CallsReturned == flushPc = "idle"

SequentialAccept == CallsReturned /\ AddToBatch

SequentialFlush == CallsReturned /\ FlushBatch

SequentialForceFlush == CallsReturned /\ ForceFlush

SinkSucceeds == SaveBatchResolves

SequentialNext ==
  \/ SequentialAccept
  \/ SequentialFlush
  \/ SequentialForceFlush
  \/ SinkSucceeds

-----------------------------------------------------------------------------
(* Process shutdown: the SIGINT/SIGTERM handlers *)

\* The signal arrives. The handlers run in the order they were registered:
\* first BatchSavingService.gracefulShutdown (registered by the constructor),
\* then LeaderboardServer.shutdown (registered by start), each up to its
\* first await.
\*  - gracefulShutdown sleeps while a save is in progress, otherwise calls
\*    forceFlush;
\*  - shutdown calls forceFlush on what gracefulShutdown left: the pending
\*    batch is then empty or a save is in progress, so flushBatch returns at
\*    once and shutdown goes on to wsService.close() and then awaits
\*    kafkaService.disconnect().
Signal ==
  /\ UNCHANGED notBatchVars
  /\ shutdownPc = "running"
  /\ atSignal' = batchToSave \o batch
  /\ IF saveInProgress
       THEN /\ gracePc' = "polling"
            /\ UNCHANGED <<batch, saveInProgress, flushPc, batchToSave,
                           attempt, swapped, sinkCalls>>
       ELSE /\ gracePc' = IF Len(batch) > 0 THEN "flushing" ELSE "done"
            /\ flushBatch(batch)
  /\ forced' = [pending |-> batch', flush |-> 0]
  /\ shutdownPc' = "kafkaDisconnect"
  /\ UNCHANGED <<dlq, nextId, saved, lost, delays, accepted, raised>>

\* gracefulShutdown's sleep(100) ends and finds no save in progress: it calls
\* forceFlush. (A poll that finds a save in progress changes nothing.)
GracePoll ==
  /\ UNCHANGED notBatchVars
  /\ Alive
  /\ gracePc = "polling"
  /\ ~saveInProgress
  /\ gracePc' = IF Len(batch) > 0 THEN "flushing" ELSE "done"
  /\ flushBatch(batch)
  /\ forced' = [pending |-> batch, flush |-> AwaitedFlush(batch)]
  /\ UNCHANGED <<dlq, nextId, saved, lost, delays, accepted, raised,
                 shutdownPc, atSignal>>

\* The flush gracefulShutdown awaits has ended.
GraceReturns ==
  /\ UNCHANGED notBatchVars
  /\ Alive
  /\ gracePc = "flushing"
  /\ flushPc = "idle"
  /\ gracePc' = "done"
  /\ UNCHANGED <<batchVars, batchAuxVars, shutdownPc, atSignal>>

\* shutdown: the awaited kafkaService.disconnect() resolves; shutdown goes on
\* to await redisService.disconnect().
KafkaDisconnected ==
  /\ UNCHANGED notBatchVars
  /\ shutdownPc = "kafkaDisconnect"
  /\ shutdownPc' = "redisDisconnect"
  /\ UNCHANGED <<batchVars, batchAuxVars, gracePc, atSignal>>

\* shutdown: the awaited redisService.disconnect() resolves; shutdown calls
\* server.close(callback) and only then arms the 10 s timer.
RedisDisconnected ==
  /\ UNCHANGED notBatchVars
  /\ shutdownPc = "redisDisconnect"
  /\ shutdownPc' = "serverClosing"
  /\ UNCHANGED <<batchVars, batchAuxVars, gracePc, atSignal>>

\* The steps of shutdown that are awaited before the timer is armed.
AwaitingDisconnect == {"kafkaDisconnect", "redisDisconnect"}

\* process.exit: an awaited disconnect rejected (the catch block), or the
\* server.close callback ran, or the 10 s timer fired.
Exit ==
  /\ UNCHANGED notBatchVars
  /\ shutdownPc \in AwaitingDisconnect \cup {"serverClosing"}
  /\ shutdownPc' = "exited"
  /\ UNCHANGED <<batchVars, batchAuxVars, gracePc, atSignal>>

\* The exit the armed timer forces: it needs the timer to have been set.
TimerFires ==
  /\ shutdownPc = "serverClosing"
  /\ Exit

\* The server as wired: submissions arrive through addToBatch, and forceFlush
\* is called by the two signal handlers only.
ShutdownNext ==
  \/ AddToBatch
  \/ SaveBatchResolves
  \/ SaveBatchRejects
  \/ SleepDone
  \/ FlushFinish
  \/ Signal
  \/ GracePoll
  \/ GraceReturns
  \/ KafkaDisconnected
  \/ RedisDisconnected
  \/ Exit

-----------------------------------------------------------------------------
(* RedisService *)

\* Participant ids and file/key texts are sequences of one-character strings.
\* The score submissions the environment makes.
Submissions ==
  {[player_id |-> <<"a">>, score |-> 7], [player_id |-> <<"b">>, score |-> 10]}

\* Byte value of the characters that occur in the model's texts.
CharCode(ch) ==
  CASE ch = "-" -> 45
    [] ch = "0" -> 48 [] ch = "1" -> 49 [] ch = "2" -> 50 [] ch = "3" -> 51
    [] ch = "4" -> 52 [] ch = "5" -> 53 [] ch = "6" -> 54 [] ch = "7" -> 55
    [] ch = "8" -> 56 [] ch = "9" -> 57 [] ch = ":" -> 58 [] ch = "_" -> 95
    [] ch = "a" -> 97 [] ch = "b" -> 98 [] ch = "c" -> 99 [] ch = "e" -> 101
    [] ch = "r" -> 114 [] ch = "s" -> 115 [] ch = "u" -> 117 [] ch = "|" -> 124

\* Redis compares members byte by byte (memcmp, the shorter first on a tie).
RECURSIVE LexLess(_, _)
LexLess(x, y) ==
  IF Len(y) = 0 THEN FALSE
  ELSE IF Len(x) = 0 THEN TRUE
  ELSE IF CharCode(Head(x)) # CharCode(Head(y))
         THEN CharCode(Head(x)) < CharCode(Head(y))
         ELSE LexLess(Tail(x), Tail(y))

\* Decimal text of a non-negative integer (number.toString(), `${number}`).
DigitChar(d) == <<"0", "1", "2", "3", "4", "5", "6", "7", "8", "9">>[d + 1]
RECURSIVE Digits(_)
Digits(n) == IF n < 10 THEN <<DigitChar(n)>>
                       ELSE Digits(n \div 10) \o <<DigitChar(n % 10)>>

\* parseInt(text, 10) of a text: the number its leading digits spell.
RECURSIVE ParseDigits(_, _)
ParseDigits(text, acc) ==
  IF Len(text) = 0 \/ CharCode(Head(text)) < 48 \/ CharCode(Head(text)) > 57
    THEN acc
    ELSE ParseDigits(Tail(text), 10 * acc + (CharCode(Head(text)) - 48))
ParseInt(text) == ParseDigits(text, 0)

\* parseInt(text) of a request parameter: an optional sign and the number the
\* digits after it spell, or NaN (Null) when no digit follows.
ParseIntOrNaN(text) ==
  LET negative == Len(text) > 0 /\ Head(text) = "-"
      body == IF negative THEN Tail(text) ELSE text
  IN IF Len(body) > 0 /\ CharCode(Head(body)) \in 48..57
       THEN Some((IF negative THEN -1 ELSE 1) * ParseDigits(body, 0))
       ELSE Null

\* JSON.stringify / JSON.parse of a plain object: a text that parses back to
\* the object it was made from.
JsonStringify(v) == [json |-> v]
JsonParse(text) == text.json

\* No getTopPlayers call made yet.
NoTopCall ==
  [via |-> "none", limit |-> Null, count |-> 0, set |-> <<>>, data |-> <<>>]

RedisInit ==
  /\ leaderboard = <<>>
  /\ cacheKey = Null
  /\ tsKey = Null
  /\ userCache = <<>>
  /\ storeLog = <<>>
  /\ topCall = NoTopCall

\* ZADD key score member: insert the member or replace its score.
\* (zAdd_KeepsGreater: the variant that never lowers a score, ZADD GT.)
zAdd_KeepsGreater(set, playerId, score) ==
  [m \in DOMAIN set \cup {playerId} |->
     IF m = playerId /\ (m \notin DOMAIN set \/ set[m] < score)
       THEN score
       ELSE set[m]]
zAdd(set, playerId, score) ==
  [m \in DOMAIN set \cup {playerId} |-> IF m = playerId THEN score ELSE set[m]]

\* The sorted set's order: by score, members of equal score by their bytes.
\* (ZLess_ByMember: the order that looks at the members only.)
ZLess_ByMember(set, m1, m2) == LexLess(m1, m2)
ZLess(set, m1, m2) ==
  \/ set[m1] < set[m2]
  \/ set[m1] = set[m2] /\ LexLess(m1, m2)

\* ZREVRANK: the number of members that come after m in the set's order.
zRevRank(set, m) == Cardinality({o \in DOMAIN set : ZLess(set, m, o)})

\* ZRANGE key start stop REV WITHSCORES: the members at the reversed-order
\* indexes start..stop, a negative index counting from the end.
zRangeWithScoresRev(set, start, stop) ==
  LET n == Cardinality(DOMAIN set)
      from == IF start < 0 THEN (IF n + start < 0 THEN 0 ELSE n + start)
                           ELSE start
      upto == IF stop < 0 THEN n + stop
                          ELSE (IF stop >= n THEN n - 1 ELSE stop)
      at(i) == CHOOSE m \in DOMAIN set : zRevRank(set, m) = i
  IN IF from > upto \/ from >= n
       THEN <<>>
       ELSE [k \in 1..(upto - from + 1) |->
               [value |-> at(from + k - 1), score |-> set[at(from + k - 1)]]]

\* RedisService.getTopPlayers(count)
getTopPlayers(set, count) ==
  LET results == zRangeWithScoresRev(set, 0, count - 1)
  IN [index \in 1..Len(results) |->
        [player_id |-> results[index].value,
         rank |-> (index - 1) + 1,
         score |-> results[index].score]]

\* RedisService.getLastUpdateTimestamp(): the key's text parsed, or null.
getLastUpdateTimestamp(key) ==
  IF key # Null /\ Len(Get(key)) > 0 THEN Some(ParseInt(Get(key))) ELSE Null

\* RedisService.setLastUpdateTimestamp(timestamp): the text written.
\* (TimestampText_Seconds: the variant that stores seconds.)
TimestampText_Seconds(timestamp) == Some(Digits(timestamp \div 1000))
TimestampText(timestamp) == Some(Digits(timestamp))

\* RedisService.getCachedLeaderboard(): the key's text parsed, or null.
getCachedLeaderboard(key) ==
  IF key # Null THEN Some(JsonParse(Get(key))) ELSE Null

\* RedisService.cacheLeaderboard(update): the text written.
LeaderboardText(update) == Some(JsonStringify(update))

\* RedisService.addScore, called by ScoreController.submitScore.
AddScore(playerId, score) ==
  /\ UNCHANGED notThrottleVars
  /\ leaderboard' = zAdd(leaderboard, playerId, score)
  /\ storeTouched' = TRUE
  /\ UNCHANGED <<cacheKey, tsKey, userCache, pc, call, published, signals>>

\* ZREM key member, ZSCORE key member, ZCARD key.
\* (zRem_All: the variant that empties the set.)
zRem_All(set, playerId) == <<>>
zRem(set, playerId) == [m \in DOMAIN set \ {playerId} |-> set[m]]
zScore(set, playerId) ==
  IF playerId \in DOMAIN set THEN Some(set[playerId]) ELSE Null
zCard(set) == Cardinality(DOMAIN set)

\* RedisService.getPlayerScore(playerId), RedisService.getTotalPlayers()
getPlayerScore(set, playerId) == zScore(set, playerId)
getTotalPlayers(set) == zCard(set)

\* RedisService.getPlayerRank(playerId): ZREVRANK plus one, or null.
getPlayerRank(set, playerId) ==
  IF playerId \in DOMAIN set THEN Some(zRevRank(set, playerId) + 1) ELSE Null

-----------------------------------------------------------------------------
(* RedisService as a store: addScore and removePlayer calls in any order *)

\* The participants and scores of the calls, and the number of calls followed.
StorePlayers == {<<"a">>, <<"b">>}
StoreScores == {7, 10}
MaxStoreOps == 3

\* RedisService.addScore(playerId, score), logged.
StoreAddScore(playerId, score) ==
  /\ UNCHANGED notStoreVars
  /\ Len(storeLog) < MaxStoreOps
  /\ leaderboard' = zAdd(leaderboard, playerId, score)
  /\ storeLog' = Append(storeLog, [op |-> "addScore", playerId |-> playerId,
                                   score |-> score])
\* RedisService.removePlayer(playerId), logged.
RemovePlayer(playerId) ==
  /\ UNCHANGED notStoreVars
  /\ Len(storeLog) < MaxStoreOps
  /\ leaderboard' = zRem(leaderboard, playerId)
  /\ storeLog' = Append(storeLog, [op |-> "removePlayer",
                                   playerId |-> playerId, score |-> 0])

StoreNext ==
  \/ \E playerId \in StorePlayers, score \in StoreScores :
       StoreAddScore(playerId, score)
  \/ \E playerId \in StorePlayers : RemovePlayer(playerId)

-----------------------------------------------------------------------------
(* Top-players queries: RedisService.getTopPlayers called with a count, and
   through ScoreController.getTopPlayers with the request's limit parameter *)

\* The participants of the store the queries read, the counts of the direct
\* calls, and the limit parameters of the requests (Null: no parameter).
QueryPlayers == {<<"a">>, <<"b">>, <<"c">>}
QueryCounts == {-1, 0, 1, 2, 3}
QueryLimits ==
  {Null, Some(<<"0">>), Some(<<"1">>), Some(<<"2">>), Some(<<"-", "1">>),
   Some(<<"1", "5", "0">>), Some(<<"a">>)}

\* ScoreController.getTopPlayers: Math.min(parseInt(limit) || 10, 100).
\* (RequestLimit_Unclamped: the variant without the upper bound.)
RequestLimit_Unclamped(limit) ==
  LET parsed == IF limit = Null THEN Null ELSE ParseIntOrNaN(Get(limit))
  IN IF parsed = Null \/ Get(parsed) = 0 THEN 10 ELSE Get(parsed)
RequestLimit(limit) ==
  LET parsed == IF limit = Null THEN Null ELSE ParseIntOrNaN(Get(limit))
  IN Min(IF parsed = Null \/ Get(parsed) = 0 THEN 10 ELSE Get(parsed), 100)

\* RedisService.getTopPlayers(count), called directly.
TopPlayersCall(count) ==
  /\ UNCHANGED notQueryVars
  /\ topCall' = [via |-> "service", limit |-> Null, count |-> count,
                 set |-> leaderboard,
                 data |-> getTopPlayers(leaderboard, count)]

\* ScoreController.getTopPlayers(req, res): the data of the response.
TopPlayersRequest(limit) ==
  /\ UNCHANGED notQueryVars
  /\ topCall' = [via |-> "request", limit |-> limit,
                 count |-> RequestLimit(limit),
                 set |-> leaderboard,
                 data |-> getTopPlayers(leaderboard, RequestLimit(limit))]

QueryNext ==
  \/ \E playerId \in QueryPlayers, score \in StoreScores :
       StoreAddScore(playerId, score)
  \/ \E playerId \in QueryPlayers : RemovePlayer(playerId)
  \/ \E count \in QueryCounts : TopPlayersCall(count)
  \/ \E limit \in QueryLimits : TopPlayersRequest(limit)

-----------------------------------------------------------------------------
(* LeaderboardProcessingService *)

\* The service instances that consume leaderboard_changes.  An instance
\* handles one message at a time (the consumer awaits the handler), so it runs
\* one processLeaderboardChange call at a time; calls of different instances
\* interleave.  MaxSignals bounds the number of messages consumed.
Calls == {1, 2}
MaxSignals == 2

\* The timestamps the change messages carry (KafkaMessage.timestamp).
Times == {1000, 1100, 1600}

throttleDuration == 500
TopCount == 10

NoLocals ==
  [currentTime |-> 0, lastUpdateTime |-> Null, top10 |-> <<>>,
   checksum |-> <<>>, cachedLeaderboard |-> Null, enhanced |-> <<>>,
   id |-> 0,
   \* history of the call: the cacheUser call of its enrichment rejected
   cacheUserFailed |-> FALSE,
   \* history of the call: it read the sorted set, the set it read, and the
   \* texts it wrote to the two keys
   readTop |-> FALSE, storeAtRead |-> <<>>, wroteCache |-> Null,
   wroteTs |-> Null]

ThrottleInit ==
  /\ pc = [c \in Calls |-> "idle"]
  /\ call = [c \in Calls |-> NoLocals]
  /\ published = <<>>
  /\ signals = 0
  /\ storeTouched = FALSE
  /\ changeTopic = [pending |-> <<>>, sent |-> 0, clock |-> 0]

\* The throttle gate of processLeaderboardChange.
\* (Throttled_SecondsForMs: the variant that takes the window in seconds.)
Throttled_SecondsForMs(currentTime, lastUpdateTime) ==
  /\ lastUpdateTime # Null
  /\ currentTime - Get(lastUpdateTime) < throttleDuration \div 1000
Throttled(currentTime, lastUpdateTime) ==
  /\ lastUpdateTime # Null
  /\ currentTime - Get(lastUpdateTime) < throttleDuration

\* crypto sha256 hex digest: a text that two inputs share only when equal.
Sha256Hex(data) == <<"sha256">> \o data

\* generateChecksum(leaderboard): the digest of the '|'-joined
\* 'player_id:score' texts.
RECURSIVE JoinWith(_, _)
JoinWith(texts, sep) ==
  IF Len(texts) = 0 THEN <<>>
  ELSE IF Len(texts) = 1 THEN texts[1]
  ELSE texts[1] \o sep \o JoinWith(Tail(texts), sep)
\* (ChecksumData_IdsOnly: the variant that joins the player_ids alone.)
ChecksumData_IdsOnly(lb) ==
  JoinWith([i \in 1..Len(lb) |-> lb[i].player_id], <<"|">>)
ChecksumData(lb) ==
  JoinWith([i \in 1..Len(lb) |-> lb[i].player_id \o <<":">> \o Digits(lb[i].score)],
           <<"|">>)
generateChecksum(lb) == Sha256Hex(ChecksumData(lb))

\* The content-dedup gate of processLeaderboardChange.
\* (ChecksumMatch_Skipped: the variant that never compares.)
ChecksumMatch_Skipped(cached, checksum) == FALSE
ChecksumMatch(cached, checksum) ==
  /\ cached # Null
  /\ Get(cached).checksum = checksum

\* DatabaseService.getUser(userId): the mock user.
getUser(userId) ==
  [id |-> userId,
   username |-> <<"u", "s", "e", "r", "_">> \o SubSeq(userId, 1, Min(8, Len(userId)))]

\* enhanceLeaderboardWithUserDetails: the rows with their user names, and the
\* user cache after the misses were filled.
enhanceLeaderboardWithUserDetails(lb, cache) ==
  [i \in 1..Len(lb) |->
     LET id == lb[i].player_id
         user == IF id \in DOMAIN cache THEN JsonParse(cache[id]) ELSE getUser(id)
     IN [player_id |-> id, rank |-> lb[i].rank, score |-> lb[i].score,
         username |-> user.username]]
UserCacheAfter(lb, cache) ==
  LET ids == {lb[i].player_id : i \in 1..Len(lb)}
  IN [id \in DOMAIN cache \cup ids |->
        IF id \in DOMAIN cache THEN cache[id] ELSE JsonStringify(getUser(id))]

\* findChangedRankings(oldLeaderboard, newLeaderboard)
OldRankMap(oldLb) ==
  [id \in {oldLb[i].player_id : i \in 1..Len(oldLb)} |->
     LET last == CHOOSE i \in 1..Len(oldLb) :
                   /\ oldLb[i].player_id = id
                   /\ \A j \in 1..Len(oldLb) : oldLb[j].player_id = id => j <= i
     IN oldLb[last].rank]
\* (OldRankOf_Missing: the lookup that never finds a previous rank.)
OldRankOf_Missing(oldLb, id) == Null
OldRankOf(oldLb, id) ==
  IF id \in DOMAIN OldRankMap(oldLb) /\ OldRankMap(oldLb)[id] # 0
    THEN Some(OldRankMap(oldLb)[id])
    ELSE Null
RECURSIVE ChangesFrom(_, _, _)
ChangesFrom(oldLb, newLb, i) ==
  IF i > Len(newLb) THEN <<>>
  ELSE LET oldRank == OldRankOf(oldLb, newLb[i].player_id)
       IN (IF oldRank # Some(newLb[i].rank)
             THEN <<[player_id |-> newLb[i].player_id, oldRank |-> oldRank,
                     newRank |-> newLb[i].rank]>>
             ELSE <<>>)
          \o ChangesFrom(oldLb, newLb, i + 1)
findChangedRankings(oldLb, newLb) == ChangesFrom(oldLb, newLb, 1)

\* How a call that returned ended.
Returned == {"throttled", "unchanged", "published"}

\* processLeaderboardChange(message), first part: the awaited
\* getLastUpdateTimestamp resolves and the throttle gate is applied; a call
\* that passes goes on to getTopPlayers.
StartProcessing(c, timestamp) ==
  /\ pc[c] \in Returned \cup {"idle", "threw"}
  /\ \A d \in Calls : d < c => pc[d] # "idle"
  /\ signals < MaxSignals
  /\ signals' = signals + 1
  /\ LET lastUpdateTime == getLastUpdateTimestamp(tsKey)
     IN /\ call' = [call EXCEPT ![c] =
                      [NoLocals EXCEPT !.id = signals + 1,
                                       !.currentTime = timestamp,
                                       !.lastUpdateTime = lastUpdateTime]]
        /\ pc' = [pc EXCEPT ![c] = IF Throttled(timestamp, lastUpdateTime)
                                     THEN "throttled" ELSE "getTopPlayers"]
  /\ UNCHANGED <<redisVars, published, storeTouched>>
GetLastUpdateTimestamp(c, timestamp) ==
  /\ UNCHANGED notThrottleVars
  /\ StartProcessing(c, timestamp)

\* The awaited getTopPlayers(10) resolves; the checksum is computed.
GetTopPlayers(c) ==
  /\ UNCHANGED notThrottleVars
  /\ pc[c] = "getTopPlayers"
  /\ LET top10 == getTopPlayers(leaderboard, TopCount)
     IN call' = [call EXCEPT ![c].top10 = top10,
                             ![c].checksum = generateChecksum(top10),
                             ![c].readTop = TRUE,
                             ![c].storeAtRead = leaderboard]
  /\ pc' = [pc EXCEPT ![c] = "getCachedLeaderboard"]
  /\ UNCHANGED <<redisVars, published, signals, storeTouched>>

\* The timestamp key after a call returned on a checksum match: the return
\* writes nothing.
\* (TimestampAfterMatch_Advanced: the variant that records the time of the
\* check.)
TimestampAfterMatch_Advanced(ts, currentTime) == TimestampText(currentTime)
TimestampAfterMatch(ts, currentTime) == ts

\* The awaited getCachedLeaderboard resolves; the checksum gate is applied.
GetCachedLeaderboard(c) ==
  /\ UNCHANGED notThrottleVars
  /\ pc[c] = "getCachedLeaderboard"
  /\ LET cached == getCachedLeaderboard(cacheKey)
     IN /\ call' = [call EXCEPT ![c].cachedLeaderboard = cached]
        /\ pc' = [pc EXCEPT ![c] = IF ChecksumMatch(cached, call[c].checksum)
                                     THEN "unchanged" ELSE "enhance"]
        /\ tsKey' = IF ChecksumMatch(cached, call[c].checksum)
                      THEN TimestampAfterMatch(tsKey, call[c].currentTime)
                      ELSE tsKey
  /\ UNCHANGED <<leaderboard, cacheKey, userCache, published, signals,
                 storeTouched>>

\* The awaited enhanceLeaderboardWithUserDetails resolves.
Enhance(c) ==
  /\ UNCHANGED notThrottleVars
  /\ pc[c] = "enhance"
  /\ call' = [call EXCEPT ![c].enhanced =
                enhanceLeaderboardWithUserDetails(call[c].top10, userCache)]
  /\ userCache' = UserCacheAfter(call[c].top10, userCache)
  /\ pc' = [pc EXCEPT ![c] = "cacheLeaderboard"]
  /\ UNCHANGED <<leaderboard, cacheKey, tsKey, published, signals, storeTouched>>

\* The awaited cacheUser of the enrichment rejects for a row whose user was
\* not cached (the rows before it are done, their users cached): nothing
\* catches the error, the call ends with it.
CacheUserRejects(c) ==
  /\ UNCHANGED notThrottleVars
  /\ pc[c] = "enhance"
  /\ \E k \in 1..Len(call[c].top10) :
       /\ call[c].top10[k].player_id \notin DOMAIN userCache
       /\ userCache' = UserCacheAfter(SubSeq(call[c].top10, 1, k - 1), userCache)
  /\ pc' = [pc EXCEPT ![c] = "threw"]
  /\ call' = [call EXCEPT ![c] = [NoLocals EXCEPT !.cacheUserFailed = TRUE]]
  /\ UNCHANGED <<leaderboard, cacheKey, tsKey, published, signals, storeTouched>>

\* The LeaderboardUpdate object a call builds.
LeaderboardUpdate(c) ==
  [top10 |-> call[c].top10, timestamp |-> call[c].currentTime,
   checksum |-> call[c].checksum]

\* The awaited cacheLeaderboard resolves.
CacheLeaderboard(c) ==
  /\ UNCHANGED notThrottleVars
  /\ pc[c] = "cacheLeaderboard"
  /\ cacheKey' = LeaderboardText(LeaderboardUpdate(c))
  /\ call' = [call EXCEPT ![c].wroteCache = LeaderboardText(LeaderboardUpdate(c))]
  /\ pc' = [pc EXCEPT ![c] = "setLastUpdateTimestamp"]
  /\ UNCHANGED <<leaderboard, tsKey, userCache, published, signals,
                 storeTouched>>

\* The awaited setLastUpdateTimestamp resolves.
SetLastUpdateTimestamp(c) ==
  /\ UNCHANGED notThrottleVars
  /\ pc[c] = "setLastUpdateTimestamp"
  /\ tsKey' = TimestampText(call[c].currentTime)
  /\ call' = [call EXCEPT ![c].wroteTs = TimestampText(call[c].currentTime)]
  /\ pc' = [pc EXCEPT ![c] = "publish"]
  /\ UNCHANGED <<leaderboard, cacheKey, userCache, published, signals,
                 storeTouched>>

\* The message handed to kafkaService.publishLeaderboardUpdate.
UpdateMessage(c) ==
  [leaderboard |-> call[c].enhanced,
   timestamp |-> call[c].currentTime,
   checksum |-> call[c].checksum,
   changedRankings |->
     findChangedRankings(
       IF call[c].cachedLeaderboard # Null
         THEN Get(call[c].cachedLeaderboard).top10 ELSE <<>>,
       call[c].top10)]

\* The awaited publishLeaderboardUpdate resolves: the message is on the topic.
PublishLeaderboardUpdate(c) ==
  /\ UNCHANGED notThrottleVars
  /\ pc[c] = "publish"
  /\ published' = Append(published, [msg |-> UpdateMessage(c), by |-> call[c].id])
  /\ pc' = [pc EXCEPT ![c] = "published"]
  /\ UNCHANGED <<redisVars, call, signals, storeTouched>>

\* An awaited Redis, database or Kafka call rejects: nothing catches it, the
\* call ends with the error.
Awaiting == {"getTopPlayers", "getCachedLeaderboard", "enhance",
             "cacheLeaderboard", "setLastUpdateTimestamp", "publish"}
Reject(c) ==
  /\ UNCHANGED notThrottleVars
  /\ pc[c] \in Awaiting
  /\ pc' = [pc EXCEPT ![c] = "threw"]
  /\ call' = [call EXCEPT ![c] = NoLocals]
  /\ UNCHANGED <<redisVars, published, signals, storeTouched>>

ThrottleNext ==
  \/ \E c \in Calls, t \in Times : GetLastUpdateTimestamp(c, t)
  \/ \E c \in Calls : GetTopPlayers(c)
  \/ \E c \in Calls : GetCachedLeaderboard(c)
  \/ \E c \in Calls : Enhance(c)
  \/ \E c \in Calls : CacheLeaderboard(c)
  \/ \E c \in Calls : SetLastUpdateTimestamp(c)
  \/ \E c \in Calls : PublishLeaderboardUpdate(c)
  \/ \E c \in Calls : Reject(c)
  \/ \E c \in Calls : CacheUserRejects(c)
  \/ \E sub \in Submissions : AddScore(sub.player_id, sub.score)

-----------------------------------------------------------------------------
(* The pipeline from a score submission to the published update *)

\* ScoreController.submitScore(req, res) at time now: the score is added to
\* the sorted set and a change message carrying Date.now() is published.
SubmitScore(sub, now) ==
  /\ UNCHANGED notPipelineVars
  /\ changeTopic.sent < MaxSignals
  /\ now >= changeTopic.clock
  /\ leaderboard' = zAdd(leaderboard, sub.player_id, sub.score)
  /\ storeTouched' = TRUE
  /\ changeTopic' = [pending |-> Append(changeTopic.pending, now),
                     sent |-> changeTopic.sent + 1,
                     clock |-> now]
  /\ UNCHANGED <<cacheKey, tsKey, userCache, pc, call, published, signals>>

\* KafkaService.subscribeToLeaderboardChanges: the consumer takes the next
\* message of the topic and calls processLeaderboardChange with its data. The
\* consumer awaits the handler, so the call before has ended.
ConsumeChange(c) ==
  /\ UNCHANGED notPipelineVars
  /\ changeTopic.pending # <<>>
  /\ \A d \in Calls : pc[d] \notin Awaiting
  /\ StartProcessing(c, Head(changeTopic.pending))
  /\ changeTopic' = [changeTopic EXCEPT !.pending = Tail(@)]

PipelineNext ==
  \/ \E sub \in Submissions, now \in Times : SubmitScore(sub, now)
  \/ \E c \in Calls : ConsumeChange(c)
  \/ \E c \in Calls : GetTopPlayers(c)
  \/ \E c \in Calls : GetCachedLeaderboard(c)
  \/ \E c \in Calls : Enhance(c)
  \/ \E c \in Calls : CacheLeaderboard(c)
  \/ \E c \in Calls : SetLastUpdateTimestamp(c)
  \/ \E c \in Calls : PublishLeaderboardUpdate(c)

-----------------------------------------------------------------------------
(* ScoreController.submitScore, one awaited call after the other *)

\* The requests in flight and the bodies they carry: two valid submissions,
\* one with an empty player_id and one with a negative score.
Requests == {1, 2}
Bodies ==
  {[player_id |-> <<"a">>, score |-> 7], [player_id |-> <<"b">>, score |-> 10],
   [player_id |-> <<>>, score |-> 7], [player_id |-> <<"a">>, score |-> -1]}

\* scoreSchema.validate(req.body): no error.
Valid(body) ==
  /\ Len(body.player_id) >= 1
  /\ Len(body.player_id) <= 255
  /\ body.score >= 0

NoRequest ==
  [pc |-> "idle", body |-> [player_id |-> <<>>, score |-> 0],
   \* history of the request: what it did and the awaited call that rejected
   upserted |-> FALSE, sentSubmission |-> FALSE, sentChange |-> FALSE,
   failedAt |-> "none"]

SubmitInit == requests = [r \in Requests |-> NoRequest]

\* The request arrives: the body is validated and, when valid, addScore is
\* called and awaited.
SubmitArrives(r, body) ==
  /\ UNCHANGED notSubmitVars
  /\ requests[r].pc = "idle"
  /\ \A q \in Requests : q < r => requests[q].pc # "idle"
  /\ requests' = [requests EXCEPT ![r] =
                    [NoRequest EXCEPT !.body = body,
                                      !.pc = IF Valid(body) THEN "addScore"
                                                            ELSE "400"]]
  /\ UNCHANGED leaderboard

\* The awaited addScore resolves; publishScoreSubmission is called.
AddScoreResolves(r) ==
  /\ UNCHANGED notSubmitVars
  /\ requests[r].pc = "addScore"
  /\ leaderboard' = zAdd(leaderboard, requests[r].body.player_id,
                         requests[r].body.score)
  /\ requests' = [requests EXCEPT ![r].upserted = TRUE,
                                  ![r].pc = "publishScoreSubmission"]

\* The awaited publishScoreSubmission resolves: the message is on the
\* score_submissions topic; publishLeaderboardChange is called.
PublishScoreSubmissionResolves(r) ==
  /\ UNCHANGED notSubmitVars
  /\ requests[r].pc = "publishScoreSubmission"
  /\ requests' = [requests EXCEPT ![r].sentSubmission = TRUE,
                                  ![r].pc = "publishLeaderboardChange"]
  /\ UNCHANGED leaderboard

\* The awaited publishLeaderboardChange resolves: the message is on the
\* leaderboard_changes topic; the response is 202.
PublishLeaderboardChangeResolves(r) ==
  /\ UNCHANGED notSubmitVars
  /\ requests[r].pc = "publishLeaderboardChange"
  /\ requests' = [requests EXCEPT ![r].sentChange = TRUE, ![r].pc = "202"]
  /\ UNCHANGED leaderboard

\* An awaited call rejects: the catch block answers 500.
SubmitAwaiting ==
  {"addScore", "publishScoreSubmission", "publishLeaderboardChange"}
SubmitRejects(r) ==
  /\ UNCHANGED notSubmitVars
  /\ requests[r].pc \in SubmitAwaiting
  /\ requests' = [requests EXCEPT ![r].failedAt = requests[r].pc,
                                  ![r].pc = "500"]
  /\ UNCHANGED leaderboard

SubmitNext ==
  \/ \E r \in Requests, body \in Bodies : SubmitArrives(r, body)
  \/ \E r \in Requests : AddScoreResolves(r)
  \/ \E r \in Requests : PublishScoreSubmissionResolves(r)
  \/ \E r \in Requests : PublishLeaderboardChangeResolves(r)
  \/ \E r \in Requests : SubmitRejects(r)

-----------------------------------------------------------------------------
(* findChangedRankings as a function of two snapshots *)

\* The sorted sets the two snapshots are taken from: any members among three
\* participants, with any of two scores.
DiffPlayers == {<<"a">>, <<"b">>, <<"c">>}
DiffScores == {7, 10}
DiffStores == UNION {[members -> DiffScores] : members \in SUBSET DiffPlayers}

DiffInit ==
  /\ oldLeaderboard = <<>>
  /\ newLeaderboard = <<>>
  /\ changes = Null

\* The previous and the current snapshot are top-10 reads of two sorted sets.
DiffInputs ==
  /\ \E set \in DiffStores : oldLeaderboard = getTopPlayers(set, TopCount)
  /\ \E set \in DiffStores : newLeaderboard = getTopPlayers(set, TopCount)
  /\ changes = Null

FindChangedRankings ==
  /\ UNCHANGED notDiffVars
  /\ changes = Null
  /\ changes' = Some(findChangedRankings(oldLeaderboard, newLeaderboard))
  /\ UNCHANGED <<oldLeaderboard, newLeaderboard>>

DiffNext == FindChangedRankings

-----------------------------------------------------------------------------
(* generateChecksum applied to two snapshots *)

\* The rows of the snapshots: LeaderboardEntry objects, and enhanced ones that
\* carry a username (Null: a plain entry); the snapshots have up to two rows.
ChecksumEntries ==
  [player_id : {<<"a">>, <<"b">>}, rank : {1, 2}, score : {7, 70},
   username : {Null, Some(<<"u">>)}]
ChecksumSnapshots ==
  {<<>>} \cup {<<e>> : e \in ChecksumEntries}
         \cup {<<e, f>> : e \in ChecksumEntries, f \in ChecksumEntries}

NoFingerprint == [left |-> <<>>, right |-> <<>>, sums |-> Null]

ChecksumInit == fingerprint = NoFingerprint

ChecksumInputs ==
  \E left \in ChecksumSnapshots, right \in ChecksumSnapshots :
    fingerprint = [left |-> left, right |-> right, sums |-> Null]

GenerateChecksum ==
  /\ UNCHANGED notChecksumVars
  /\ fingerprint.sums = Null
  /\ fingerprint' =
       [fingerprint EXCEPT !.sums = Some(<<generateChecksum(fingerprint.left),
                                          generateChecksum(fingerprint.right)>>)]

ChecksumNext == GenerateChecksum

\* Snapshots as getTopPlayers returns them, read from sorted sets of up to
\* two members.  The player_ids are texts the score schema accepts (a string
\* of 1 to 255 characters): two plain ones and one that holds ':' and '|'.
ChecksumIds == {<<"a">>, <<"b">>, <<"a", ":", "7", "0", "|", "b">>}
ChecksumScores == {7, 70}
ChecksumStores ==
  UNION {[members -> ChecksumScores] :
           members \in {ids \in SUBSET ChecksumIds : Cardinality(ids) <= 2}}

StoredSnapshotInputs ==
  \E left \in ChecksumStores, right \in ChecksumStores :
    fingerprint = [left |-> getTopPlayers(left, TopCount),
                   right |-> getTopPlayers(right, TopCount),
                   sums |-> Null]

-----------------------------------------------------------------------------
(* WebSocketService *)

\* The connections clients make, and the number of broadcast and heartbeat
\* passes the model follows.
Sockets == {1, 2, 3}
MaxHubOps == 2

HubInit ==
  /\ clients = {}
  /\ readyState = [ws \in Sockets |-> "NEW"]
  /\ inbox = [ws \in Sockets |-> <<>>]
  /\ wssClosed = FALSE
  /\ hubOps = 0
  /\ lastBroadcast = [registered |-> {}, successCount |-> 0, failCount |-> 0,
                      notOpen |-> {}, raised |-> {}]
  /\ broadcastCalls = 0
  /\ lastHeartbeat = [raised |-> {}]

\* wss.on('connection'): the connection is registered and welcomed.
\* Connections are numbered in the order they are made.
Connection(ws) ==
  /\ UNCHANGED notHubVars
  /\ readyState[ws] = "NEW"
  /\ \A other \in Sockets : other < ws => readyState[other] # "NEW"
  /\ ~wssClosed
  /\ readyState' = [readyState EXCEPT ![ws] = "OPEN"]
  /\ clients' = clients \cup {ws}
  /\ inbox' = [inbox EXCEPT ![ws] = Append(@, "connected")]
  /\ UNCHANGED <<wssClosed, hubOps, lastBroadcast, broadcastCalls,
                 lastHeartbeat>>

\* The connection starts closing (the peer or the network): its readyState is
\* no longer OPEN, its 'close' event has not been emitted yet.
StartClosing(ws) ==
  /\ UNCHANGED notHubVars
  /\ readyState[ws] = "OPEN"
  /\ readyState' = [readyState EXCEPT ![ws] = "CLOSING"]
  /\ UNCHANGED <<clients, inbox, wssClosed, hubOps, lastBroadcast,
                 broadcastCalls, lastHeartbeat>>

\* ws.on('close'): the connection is closed and unregistered.
OnClose(ws) ==
  /\ UNCHANGED notHubVars
  /\ readyState[ws] = "CLOSING"
  /\ readyState' = [readyState EXCEPT ![ws] = "CLOSED"]
  /\ clients' = clients \ {ws}
  /\ UNCHANGED <<inbox, wssClosed, hubOps, lastBroadcast, broadcastCalls,
                 lastHeartbeat>>

\* ws.on('error'): the connection is unregistered.
OnError(ws) ==
  /\ UNCHANGED notHubVars
  /\ readyState[ws] \in {"OPEN", "CLOSING"}
  /\ ws \in clients
  /\ clients' = clients \ {ws}
  /\ UNCHANGED <<readyState, inbox, wssClosed, hubOps, lastBroadcast,
                 broadcastCalls, lastHeartbeat>>

\* The registered connections a pass finds OPEN.
OpenClients == {ws \in clients : readyState[ws] = "OPEN"}

\* The connections the forEach pass of broadcast sends the message to without
\* an exception: every registered connection is visited (deleting the visited
\* element of a Set does not skip the others), client.send is called for the
\* OPEN ones and raises for those in raising.
\* (SentTo_StopsAtFailure: the pass that ends at the first failure, here
\* the one that delivers to nobody once a connection fails.)
SentTo_StopsAtFailure(raising) ==
  IF raising = {} /\ clients = OpenClients THEN OpenClients ELSE {}
SentTo(raising) == OpenClients \ raising

\* broadcast(data): one pass over this.clients; client.send raises for the
\* connections in raising. Only the connections found not OPEN are deleted.
Broadcast(raising) ==
  /\ UNCHANGED notHubVars
  /\ hubOps < MaxHubOps
  /\ hubOps' = hubOps + 1
  /\ broadcastCalls' = broadcastCalls + 1
  /\ raising \subseteq OpenClients
  /\ inbox' = [ws \in Sockets |->
                 IF ws \in SentTo(raising)
                   THEN Append(inbox[ws], "leaderboard_update")
                   ELSE inbox[ws]]
  /\ clients' = clients \ (clients \ OpenClients)
  /\ lastBroadcast' =
       [registered |-> clients,
        successCount |-> Cardinality(OpenClients \ raising),
        failCount |-> Cardinality(raising) + Cardinality(clients \ OpenClients),
        notOpen |-> clients \ OpenClients,
        raised |-> raising]
  /\ UNCHANGED <<readyState, wssClosed, lastHeartbeat>>

\* The connections sendHeartbeat leaves registered: the ones found OPEN whose
\* send did not raise.
\* (HeartbeatKeeps_Raising: the pass that, like broadcast, deletes only the
\* connections found not OPEN.)
HeartbeatKeeps_Raising(raising) == OpenClients
HeartbeatKeeps(raising) == OpenClients \ raising

\* sendHeartbeat(): one pass over this.clients; client.send raises for the
\* connections in raising.
SendHeartbeat(raising) ==
  /\ UNCHANGED notHubVars
  /\ hubOps < MaxHubOps
  /\ hubOps' = hubOps + 1
  /\ raising \subseteq OpenClients
  /\ inbox' = [ws \in Sockets |->
                 IF ws \in OpenClients \ raising
                   THEN Append(inbox[ws], "heartbeat")
                   ELSE inbox[ws]]
  /\ clients' = HeartbeatKeeps(raising)
  /\ lastHeartbeat' = [raised |-> raising]
  /\ UNCHANGED <<readyState, wssClosed, lastBroadcast, broadcastCalls>>

\* close(): every registered connection is sent the notice and closed, unless
\* the send raises; the registry is cleared and the server closed.
Close(raising) ==
  /\ UNCHANGED notHubVars
  /\ ~wssClosed
  /\ raising \subseteq clients
  /\ inbox' = [ws \in Sockets |->
                 IF ws \in clients \ raising /\ readyState[ws] = "OPEN"
                   THEN Append(inbox[ws], "server_shutdown")
                   ELSE inbox[ws]]
  /\ readyState' = [ws \in Sockets |->
                      IF ws \in clients \ raising /\ readyState[ws] = "OPEN"
                        THEN "CLOSING"
                        ELSE readyState[ws]]
  /\ clients' = {}
  /\ wssClosed' = TRUE
  /\ UNCHANGED <<hubOps, lastBroadcast, broadcastCalls, lastHeartbeat>>

HubNext ==
  \/ \E ws \in Sockets : Connection(ws)
  \/ \E ws \in Sockets : StartClosing(ws)
  \/ \E ws \in Sockets : OnClose(ws)
  \/ \E ws \in Sockets : OnError(ws)
  \/ \E raising \in SUBSET Sockets : Broadcast(raising)
  \/ \E raising \in SUBSET Sockets : SendHeartbeat(raising)
  \/ \E raising \in SUBSET Sockets : Close(raising)

-----------------------------------------------------------------------------
(* Specifications *)

Init ==
  /\ BatchInit /\ RedisInit /\ ThrottleInit /\ SubmitInit /\ DiffInit
  /\ ChecksumInit /\ HubInit

SpecBatch == Init /\ [][BatchNext]_vars

SpecShutdown == Init /\ [][ShutdownNext]_vars

\* The shutdown with the progress the runtime provides: an awaited saveBatch
\* call settles, timers fire, continuations run. Nothing makes an awaited
\* disconnect settle.
SpecShutdownLive ==
  /\ Init
  /\ [][ShutdownNext]_vars
  /\ WF_vars(SaveBatchResolves \/ SaveBatchRejects)
  /\ WF_vars(SleepDone)
  /\ WF_vars(FlushFinish)
  /\ WF_vars(GracePoll)
  /\ WF_vars(GraceReturns)
  /\ WF_vars(TimerFires)

SpecAccepts == Init /\ [][AcceptsNext]_vars

\* The same with the progress the runtime provides when the sink may never
\* respond: timers fire and continuations run, but nothing makes an awaited
\* saveBatch call settle.
SpecSilentSink ==
  /\ Init
  /\ [][AcceptsNext]_vars
  /\ WF_vars(SleepDone)
  /\ WF_vars(FlushFinish)

SpecSubmit == Init /\ [][SubmitNext]_vars

SpecSequential == Init /\ [][SequentialNext]_vars

SpecQuery == Init /\ [][QueryNext]_vars

SpecStore == Init /\ [][StoreNext]_vars

\* BatchSavingService with the progress the runtime provides: an awaited
\* saveBatch call settles, a sleep timer fires, a continuation runs. Nothing
\* makes further submissions or calls arrive.
SpecBatchLive ==
  /\ Init
  /\ [][BatchNext]_vars
  /\ WF_vars(SaveBatchResolves \/ SaveBatchRejects)
  /\ WF_vars(SleepDone)
  /\ WF_vars(FlushFinish)

SpecThrottle == Init /\ [][ThrottleNext]_vars

\* The pipeline with the progress the runtime provides: a pending change
\* message is consumed and every awaited call of processLeaderboardChange
\* resolves. Nothing makes further submissions arrive.
SpecPipeline ==
  /\ Init
  /\ [][PipelineNext]_vars
  /\ WF_vars(\E c \in Calls : ConsumeChange(c))
  /\ WF_vars(\E c \in Calls : GetTopPlayers(c))
  /\ WF_vars(\E c \in Calls : GetCachedLeaderboard(c))
  /\ WF_vars(\E c \in Calls : Enhance(c))
  /\ WF_vars(\E c \in Calls : CacheLeaderboard(c))
  /\ WF_vars(\E c \in Calls : SetLastUpdateTimestamp(c))
  /\ WF_vars(\E c \in Calls : PublishLeaderboardUpdate(c))

\* The two snapshots are inputs: every pair of top-10 reads is a start.
InitDiff ==
  /\ BatchInit /\ RedisInit /\ ThrottleInit /\ SubmitInit /\ HubInit
  /\ ChecksumInit /\ DiffInputs

SpecDiff == InitDiff /\ [][DiffNext]_vars

InitChecksum ==
  /\ BatchInit /\ RedisInit /\ ThrottleInit /\ SubmitInit /\ HubInit /\ DiffInit
  /\ ChecksumInputs

SpecChecksum == InitChecksum /\ [][ChecksumNext]_vars

\* generateChecksum applied to two snapshots read from sorted sets.
InitStoredSnapshots ==
  /\ BatchInit /\ RedisInit /\ ThrottleInit /\ SubmitInit /\ HubInit /\ DiffInit
  /\ StoredSnapshotInputs

SpecStoredSnapshots == InitStoredSnapshots /\ [][ChecksumNext]_vars

SpecHub == Init /\ [][HubNext]_vars

-----------------------------------------------------------------------------
(* Claims about BatchSavingService *)

\* The flush that swapped out swapped[k] has ended (its flag is cleared).
FlushEnded(k) == k < Len(swapped) \/ flushPc = "idle"

\* The dead-letter records holding at least one entry of batch b.
RecordsOf(b) ==
  {i \in DOMAIN dlq : Range(dlq[i].submissions) \cap Range(b) # {}}

\* Number of places (pending batch, swapped-out batches) holding entry id.
PlacesOf(id) ==
  Occurrences(batch, id)
  + Cardinality({p \in UNION {{<<k, i>> : i \in DOMAIN swapped[k]} :
                                k \in DOMAIN swapped} :
                   swapped[p[1]][p[2]] = id})

\* C1: whatever the interleaving of addToBatch with a running flushBatch,
\* every accepted entry is held exactly once, either in the pending batch or
\* in exactly one swapped-out batch; the batch in flight is the one swapped
\* out last (entries accepted later are not in it), and the sink is only ever
\* handed swapped-out batches.
C1_AcceptedExactlyOnce ==
  /\ \A id \in 1..(nextId - 1) : PlacesOf(id) = 1
  /\ flushPc # "idle" =>
       /\ Len(swapped) > 0
       /\ batchToSave = swapped[Len(swapped)]
  /\ \A i \in DOMAIN sinkCalls : sinkCalls[i] \in Range(swapped)

\* C1 witness: a batch longer than the threshold was handed to the sink: its
\* entries piled up in the next batch while an earlier flush was in flight.
C1_Witness ==
  \E k \in DOMAIN swapped :
    /\ k >= 2
    /\ Len(swapped[k]) > batchSize
    /\ swapped[k] \in Range(sinkCalls)

Exhausted(k) ==
  /\ Occurrences(sinkCalls, swapped[k]) = maxRetries
  /\ swapped[k] \notin Range(saved)
  /\ k < Len(swapped) \/ flushPc \in {"idle", "deadLettered"}

-----------------------------------------------------------------------------
(* Claims about LeaderboardProcessingService *)

\* The messages on leaderboard_updates that call number id published.
PublishedBy(id) == {i \in DOMAIN published : published[i].by = id}

\* The call of instance c has read the timestamp key and found a value less
\* than the throttle window before its own timestamp.
InsideWindow(c) ==
  /\ pc[c] \notin {"idle", "threw"}
  /\ call[c].lastUpdateTime # Null
  /\ call[c].currentTime - Get(call[c].lastUpdateTime) < throttleDuration

\* C4: a change signal whose timestamp is less than the throttle window after
\* the last-published timestamp it reads returns none: it never reads the
\* sorted set and publishes nothing.
C4_ThrottledReturnsNone ==
  \A c \in Calls :
    InsideWindow(c) =>
      /\ pc[c] = "throttled"
      /\ ~call[c].readTop
      /\ PublishedBy(call[c].id) = {}

\* C4 witness: a signal 100 ms after a published update was throttled.
C4_Witness ==
  \E c \in Calls :
    /\ pc[c] = "throttled"
    /\ call[c].currentTime - Get(call[c].lastUpdateTime) = 100
    /\ Len(published) = 1

\* The call of instance c has read the cached update.
CacheRead == {"unchanged", "enhance", "cacheLeaderboard",
              "setLastUpdateTimestamp", "publish", "published"}

\* The snapshot the call of instance c read has the fingerprint of the cached
\* update it read.
SameFingerprint(c) ==
  /\ call[c].cachedLeaderboard # Null
  /\ Get(call[c].cachedLeaderboard).checksum = generateChecksum(call[c].top10)

\* C5: a change signal that passed the throttle gate and whose snapshot has the
\* fingerprint of the cached update returns none and publishes nothing.
C5_SameFingerprintReturnsNone ==
  \A c \in Calls :
    (pc[c] \in CacheRead /\ SameFingerprint(c)) =>
      /\ pc[c] = "unchanged"
      /\ PublishedBy(call[c].id) = {}

\* C5 witness: a signal 600 ms after the last update, outside the window, was
\* suppressed by the fingerprint match.
C5_Witness ==
  \E c \in Calls :
    /\ pc[c] = "unchanged"
    /\ call[c].lastUpdateTime # Null
    /\ call[c].currentTime - Get(call[c].lastUpdateTime) = 600

\* The snapshot is the top of the sorted set: every member (the model's sets
\* hold fewer than TopCount), with its score, ranked 1, 2, ... by score.
IsTopOf(lb, set) ==
  /\ Len(lb) = Cardinality(DOMAIN set)
  /\ {lb[i].player_id : i \in 1..Len(lb)} = DOMAIN set
  /\ \A i \in 1..Len(lb) :
       /\ lb[i].rank = i
       /\ lb[i].score = set[lb[i].player_id]
       /\ i < Len(lb) => lb[i].score >= lb[i + 1].score

\* The rows of an enriched leaderboard without their user names.
Rows(enhanced) ==
  [i \in 1..Len(enhanced) |->
     [player_id |-> enhanced[i].player_id, rank |-> enhanced[i].rank,
      score |-> enhanced[i].score]]

\* C6: a call that returns has published exactly when it passed both gates
\* (no last timestamp or at least the window after it, and no cached update
\* or one of another fingerprint); it then published exactly one message,
\* carrying the snapshot it read from the sorted set, its fingerprint and the
\* signal's timestamp, wrote that update to the cache key and the signal's
\* timestamp to the timestamp key; otherwise it published and wrote nothing.
C6_PublishesIffBothGatesPass ==
  \A c \in Calls :
    pc[c] \in Returned =>
      LET l == call[c]
          gate == \/ l.lastUpdateTime = Null
                  \/ l.currentTime - Get(l.lastUpdateTime) >= throttleDuration
          differs == \/ l.cachedLeaderboard = Null
                     \/ Get(l.cachedLeaderboard).checksum # generateChecksum(l.top10)
      IN /\ pc[c] = "published" <=> (gate /\ differs)
         /\ IF pc[c] = "published"
              THEN /\ Cardinality(PublishedBy(l.id)) = 1
                   /\ IsTopOf(l.top10, l.storeAtRead)
                   /\ \A i \in PublishedBy(l.id) :
                        /\ Rows(published[i].msg.leaderboard) = l.top10
                        /\ published[i].msg.checksum = generateChecksum(l.top10)
                        /\ published[i].msg.timestamp = l.currentTime
                   /\ getCachedLeaderboard(l.wroteCache) =
                        Some([top10 |-> l.top10, timestamp |-> l.currentTime,
                              checksum |-> generateChecksum(l.top10)])
                   /\ getLastUpdateTimestamp(l.wroteTs) = Some(l.currentTime)
              ELSE /\ PublishedBy(l.id) = {}
                   /\ l.wroteCache = Null
                   /\ l.wroteTs = Null

\* C6 witness: a call published a two-row snapshot that replaced a cached
\* update, having read a last timestamp outside the window.
C6_Witness ==
  \E c \in Calls :
    /\ pc[c] = "published"
    /\ call[c].lastUpdateTime # Null
    /\ call[c].cachedLeaderboard # Null
    /\ Len(call[c].top10) = 2
    /\ Len(published) = 2

\* C7 (as claimed): while the sorted set is unchanged, no two published
\* updates have the same fingerprint.
C7_OneUpdatePerFingerprint ==
  ~storeTouched =>
    \A i, j \in DOMAIN published :
      i # j => published[i].msg.checksum # published[j].msg.checksum

\* C8 (as claimed): any two published updates have timestamps at least the
\* throttle window apart.
C8_UpdatesAWindowApart ==
  \A i, j \in DOMAIN published :
    i # j =>
      \/ published[i].msg.timestamp - published[j].msg.timestamp >= throttleDuration
      \/ published[j].msg.timestamp - published[i].msg.timestamp >= throttleDuration

-----------------------------------------------------------------------------
(* Claims about findChangedRankings, checked under SpecDiff *)

\* The participants of a snapshot, and the rank a snapshot gives a participant.
IdsOf(lb) == {lb[i].player_id : i \in DOMAIN lb}
RankIn(lb, id) ==
  IF id \in IdsOf(lb)
    THEN Some(lb[CHOOSE i \in DOMAIN lb : lb[i].player_id = id].rank)
    ELSE Null

\* C9 (as amended): the changed list holds exactly the participants of the
\* current snapshot whose rank differs from the previous snapshot or who were
\* absent from it, each once, in the order of the current snapshot, with the
\* previous rank (none for a new entrant) and the current rank; a participant
\* with the same rank in both is not listed, and neither is a participant
\* present in the previous snapshot only.
C9_ChangedAmongCurrent ==
  changes # Null =>
    LET list == Get(changes)
        differing == {id \in IdsOf(newLeaderboard) :
                        RankIn(oldLeaderboard, id) # RankIn(newLeaderboard, id)}
    IN /\ {list[i].player_id : i \in DOMAIN list} = differing
       /\ Len(list) = Cardinality(differing)
       /\ \A i \in DOMAIN list :
            /\ list[i].oldRank = RankIn(oldLeaderboard, list[i].player_id)
            /\ Some(list[i].newRank) = RankIn(newLeaderboard, list[i].player_id)
       /\ \A i, j \in DOMAIN list : i < j => list[i].newRank < list[j].newRank

\* C9 witness: the list was computed for a pair of snapshots with a new
\* entrant, a participant that moved, one that kept its rank and one that
\* dropped out.
C9_Witness ==
  /\ changes # Null
  /\ \E id \in IdsOf(newLeaderboard) : id \notin IdsOf(oldLeaderboard)
  /\ \E id \in IdsOf(oldLeaderboard) : id \notin IdsOf(newLeaderboard)
  /\ \E id \in IdsOf(newLeaderboard) \cap IdsOf(oldLeaderboard) :
       RankIn(oldLeaderboard, id) = RankIn(newLeaderboard, id)
  /\ Len(Get(changes)) = 1

\* C9 (as claimed): the changed list holds exactly the participants whose
\* rank differs between the two snapshots, a participant present in only one
\* of them included.
C9_ChangedIsSymmetricDiff ==
  changes # Null =>
    LET list == Get(changes)
        differing == {id \in IdsOf(oldLeaderboard) \cup IdsOf(newLeaderboard) :
                        RankIn(oldLeaderboard, id) # RankIn(newLeaderboard, id)}
    IN /\ {list[i].player_id : i \in DOMAIN list} = differing
       /\ Len(list) = Cardinality(differing)
       /\ \A i \in DOMAIN list :
            list[i].oldRank = RankIn(oldLeaderboard, list[i].player_id)

-----------------------------------------------------------------------------
(* Claims about WebSocketService, checked under SpecHub *)

\* C10 (as claimed): after a broadcast, every connection it found not OPEN
\* and every connection whose send raised is counted as failed and is no
\* longer registered, and the two counts add up to the number of connections
\* registered when the broadcast started.
C10_FailedAreUnregistered ==
  /\ (lastBroadcast.notOpen \cup lastBroadcast.raised) \cap clients = {}
  /\ lastBroadcast.failCount =
       Cardinality(lastBroadcast.notOpen \cup lastBroadcast.raised)
  /\ lastBroadcast.successCount + lastBroadcast.failCount =
       Cardinality(lastBroadcast.registered)

\* Number of leaderboard_update messages a connection was sent.
Updates(box) == Cardinality({i \in DOMAIN box : box[i] = "leaderboard_update"})

\* C11: a broadcast call sends the message exactly once to every connection
\* that is registered and OPEN when it is called and whose send does not
\* raise, whatever the number of other connections that are not OPEN (and
\* get removed by the call) or whose send raises; it sends nothing to any
\* other connection, and no other step sends the message.
C11_ReadyReceiveOnce ==
  [][\A ws \in Sockets :
       Updates(inbox'[ws]) - Updates(inbox[ws]) =
         IF /\ broadcastCalls' = broadcastCalls + 1
            /\ ws \in clients
            /\ readyState[ws] = "OPEN"
            /\ ws \notin lastBroadcast'.raised
           THEN 1
           ELSE 0]_vars

\* C11 witness: one broadcast delivered to a ready connection while another
\* connection raised on send and a third was not OPEN and got removed.
C11_Witness ==
  /\ broadcastCalls >= 1
  /\ lastBroadcast.raised # {}
  /\ lastBroadcast.notOpen # {}
  /\ \E ws \in lastBroadcast.registered :
       /\ ws \notin lastBroadcast.raised \cup lastBroadcast.notOpen
       /\ Updates(inbox[ws]) = 1

-----------------------------------------------------------------------------
(* Claims about forceFlush and shutdown *)

\* The entries the sink was handed, resolved, and the dead-letter file holds.
HandedToSink == UNION {Range(sinkCalls[i]) : i \in DOMAIN sinkCalls}
SavedEntries == UNION {Range(saved[i]) : i \in DOMAIN saved}
DeadLettered == UNION {Range(dlq[i].submissions) : i \in DOMAIN dlq}

\* The last forceFlush call has returned: it started no flush, or the flush
\* it started and awaits has ended.
ForceFlushReturned == forced.flush = 0 \/ FlushEnded(forced.flush)

\* C12 (as claimed): when forceFlush has returned, every entry that was
\* pending when it was called has been handed to the sink and is saved or
\* dead-lettered, also when it was called while a flush was in flight.
C12_ForceFlushAttemptsPending ==
  ForceFlushReturned =>
    \A id \in Range(forced.pending) :
      /\ id \in HandedToSink
      /\ id \in SavedEntries \cup DeadLettered

\* C13 (as claimed): once the process has exited, every entry that was
\* pending or in flight when the shutdown signal arrived is saved or
\* dead-lettered.
C13_ShutdownSettlesPending ==
  shutdownPc = "exited" =>
    \A id \in Range(atSignal) : id \in SavedEntries \cup DeadLettered

\* C14 (as claimed): every entry accepted by addToBatch is eventually saved by
\* the sink or recorded in the dead-letter file.
C14_AcceptedEventuallySettled ==
  \A id \in 1..MaxAccepts :
    (id < nextId) ~> (id \in SavedEntries \cup DeadLettered)

-----------------------------------------------------------------------------
(* Claims about the threshold, checked under SpecSequential *)

\* The k-th run of batchSize consecutive entries.
FullBatch(k) == [i \in 1..batchSize |-> (k - 1) * batchSize + i]

\* C15: with calls made one after another and a sink that succeeds, a flush
\* starts exactly when the pending batch reaches the threshold: the pending
\* batch is always shorter than batchSize; as long as no forceFlush (or
\* direct flushBatch) has flushed anything, n accepts have produced
\* n \div batchSize flushes, the k-th of exactly the k-th batchSize entries,
\* and n % batchSize entries are pending; a forceFlush that finds entries pending flushes exactly those, and
\* every flush that ended saved its batch.
C15_FlushAtThreshold ==
  LET n == nextId - 1
  IN /\ Len(batch) < batchSize
     /\ \A k \in DOMAIN swapped : Len(swapped[k]) \in 1..batchSize
     /\ (\A k \in DOMAIN swapped : Len(swapped[k]) = batchSize) =>
          /\ Len(swapped) = n \div batchSize
          /\ Len(batch) = n % batchSize
          /\ \A k \in DOMAIN swapped : swapped[k] = FullBatch(k)
     /\ forced.pending # <<>> =>
          /\ forced.flush \in DOMAIN swapped
          /\ swapped[forced.flush] = forced.pending
     /\ \A k \in DOMAIN swapped :
          FlushEnded(k) => Occurrences(saved, swapped[k]) = 1
     /\ Len(sinkCalls) = Len(swapped)

\* C15 witness: five accepts with threshold two gave two automatic flushes
\* of two entries, the fifth entry stayed pending until forceFlush flushed
\* it, and all three batches are saved.
C15_Witness ==
  /\ nextId = 6
  /\ Len(swapped) = 3
  /\ swapped[1] = <<1, 2>>
  /\ swapped[2] = <<3, 4>>
  /\ forced = [pending |-> <<5>>, flush |-> 3]
  /\ Len(saved) = 3
  /\ flushPc = "idle"

-----------------------------------------------------------------------------
(* Claims about the flush loop, checked under SpecBatch *)

\* Number of dbService.saveBatch calls that have not settled: the calls made,
\* less those that resolved and those that rejected (each rejection is
\* followed by a sleep or by the dead-letter write).
OutstandingSinkCalls ==
  Len(sinkCalls) - Len(saved) - (Len(delays) + Len(dlq) + Len(lost))

\* What a step may do while a flush is in progress, and what a step that is
\* not an accept may do on an empty pending batch.
GuardedStep ==
  /\ saveInProgress =>
       /\ swapped' = swapped
       /\ (sinkCalls' # sinkCalls) =>
            /\ flushPc = "sleeping"
            /\ sinkCalls' = Append(sinkCalls, batchToSave)
       /\ \/ batch' = batch
          \/ nextId' = nextId + 1 /\ batch' = Append(batch, nextId)
       /\ ~saveInProgress' => flushPc \in {"saving", "deadLettered"}
  /\ (batch = <<>> /\ nextId' = nextId) =>
       /\ swapped' = swapped
       /\ batch' = batch
       /\ ~saveInProgress => (sinkCalls' = sinkCalls /\ ~saveInProgress')

\* C16: at most one saveBatch call is outstanding, and only while the
\* in-progress flag is set; a step taken while a flush is in progress takes
\* no new batch, calls the sink only to retry the batch in flight after its
\* sleep, leaves the pending batch alone but for an accepted entry appended
\* to it, and clears the flag only by ending the flush; a flushBatch or
\* forceFlush call on an empty pending batch changes none of them.
C16_OneFlushInFlight ==
  /\ [](/\ OutstandingSinkCalls \in {0, 1}
        /\ (OutstandingSinkCalls = 1) <=> (flushPc = "saving")
        /\ saveInProgress <=> (flushPc # "idle"))
  /\ [][GuardedStep]_vars

\* C16 witness: while a flush is in flight the pending batch has reached the
\* threshold (the flushBatch call of addToBatch did nothing) and a forceFlush
\* call on it returned without starting a flush.
C16_Witness ==
  /\ saveInProgress
  /\ Len(batch) >= batchSize
  /\ forced = [pending |-> batch, flush |-> 0]
  /\ Len(swapped) = 1

\* A step that calls the sink either starts the flush of a newly swapped-out
\* batch or retries the batch in flight, whose calls so far all failed and
\* number fewer than maxRetries; a batch the sink has saved is never handed
\* to it again.
SinkCallStep ==
  /\ (sinkCalls' # sinkCalls) =>
       \E b \in Range(swapped') :
         /\ sinkCalls' = Append(sinkCalls, b)
         /\ \/ /\ swapped' = Append(swapped, b)
               /\ Occurrences(sinkCalls, b) = 0
            \/ /\ swapped' = swapped
               /\ b = batchToSave
               /\ b \notin Range(saved)
               /\ Occurrences(sinkCalls, b) = attempt
               /\ attempt \in 1..(maxRetries - 1)
  /\ \A b \in Range(saved) :
       Occurrences(sinkCalls', b) = Occurrences(sinkCalls, b)

\* C17: every swapped-out batch is handed to the sink at least once and at
\* most maxRetries times, at most one of these calls succeeds and it is the
\* last one, and a further call is made only after a failure while fewer
\* than maxRetries attempts have been made.
C17_SinkCallsWithinBudget ==
  /\ [](\A k \in DOMAIN swapped :
          /\ Occurrences(sinkCalls, swapped[k]) \in 1..maxRetries
          /\ Occurrences(saved, swapped[k]) <= 1)
  /\ [][SinkCallStep]_vars

\* C17 witness: a batch was saved by its third and last permitted call.
C17_Witness ==
  \E k \in DOMAIN swapped :
    /\ Occurrences(sinkCalls, swapped[k]) = maxRetries
    /\ swapped[k] \in Range(saved)

\* Number of dead-letter writes attempted for batch b: those that wrote the
\* record and those that failed and logged the batch as lost.
OverflowWrites(b) ==
  Cardinality({i \in DOMAIN dlq : dlq[i].submissions = b})
  + Occurrences(lost, b)

\* C18: a dead-letter write is attempted only for a swapped-out batch whose
\* maxRetries sink calls all failed, and exactly once for such a batch; and
\* no error leaves addToBatch, flushBatch or forceFlush, whether the sink
\* fails or the dead-letter write does.
C18_DeadLetterOnlyWhenExhausted ==
  /\ \A i \in DOMAIN dlq :
       \E k \in DOMAIN swapped :
         dlq[i].submissions = swapped[k] /\ Exhausted(k)
  /\ \A i \in DOMAIN lost :
       \E k \in DOMAIN swapped : lost[i] = swapped[k] /\ Exhausted(k)
  /\ \A k \in DOMAIN swapped :
       OverflowWrites(swapped[k]) = IF Exhausted(k) THEN 1 ELSE 0
  /\ ~raised

\* C18 witness: one batch was dead-lettered and the dead-letter write of
\* another failed; both flushes ended with the flag cleared.
C18_Witness ==
  /\ ~saveInProgress
  /\ ~raised
  /\ \E j, k \in DOMAIN swapped :
       /\ j # k
       /\ Exhausted(j) /\ swapped[j] \in Range(lost)
       /\ Exhausted(k) /\ RecordsOf(swapped[k]) # {}

\* The last addToBatch call has returned: it awaits no flush, or the flush it
\* started and awaits has ended.
AcceptReturned == accepted.flush = 0 \/ FlushEnded(accepted.flush)

\* C19 (as claimed): addToBatch never keeps its caller waiting for the
\* outcome of a flush: the call that brought the batch to the threshold has
\* returned while the sink has neither confirmed nor failed the batch.
C19_AcceptDoesNotAwaitFlush ==
  (flushPc = "saving" /\ attempt = 0 /\ accepted.flush = Len(swapped))
    => AcceptReturned

-----------------------------------------------------------------------------
(* Claims about RedisService as a store, checked under SpecStore *)

\* The score the calls logged so far leave a participant with: that of its
\* last addScore call if no removePlayer call of it followed, else none.
RECURSIVE ExpectedScore(_, _)
ExpectedScore(log, playerId) ==
  IF log = <<>> THEN Null
  ELSE LET last == log[Len(log)]
       IN IF last.playerId = playerId
            THEN (IF last.op = "addScore" THEN Some(last.score) ELSE Null)
            ELSE ExpectedScore(SubSeq(log, 1, Len(log) - 1), playerId)

\* C20: after any sequence of addScore and removePlayer calls the sorted set
\* lists every participant at most once, getPlayerScore gives the score of
\* the participant's most recent addScore not followed by a removePlayer
\* (none otherwise), and getTotalPlayers is the number of participants
\* present.
C20_StoreKeepsLatestScore ==
  LET present == {q \in StorePlayers : ExpectedScore(storeLog, q) # Null}
      all == getTopPlayers(leaderboard, getTotalPlayers(leaderboard))
  IN /\ \A q \in StorePlayers :
          /\ getPlayerScore(leaderboard, q) = ExpectedScore(storeLog, q)
          /\ Cardinality({i \in DOMAIN all : all[i].player_id = q})
               = IF q \in present THEN 1 ELSE 0
     /\ getTotalPlayers(leaderboard) = Cardinality(present)
     /\ Len(all) = Cardinality(present)

\* C20 witness: a participant was given a score, removed, and given a lower
\* score, which is the one the store holds.
C20_Witness ==
  /\ Len(storeLog) = 3
  /\ storeLog[1] = [op |-> "addScore", playerId |-> <<"a">>, score |-> 10]
  /\ storeLog[2].op = "removePlayer" /\ storeLog[2].playerId = <<"a">>
  /\ storeLog[3] = [op |-> "addScore", playerId |-> <<"a">>, score |-> 7]
  /\ getPlayerScore(leaderboard, <<"a">>) = Some(7)

-----------------------------------------------------------------------------
(* Top-players snapshots *)

\* A getTopPlayers call was made: topCall holds its argument and its result.
TopCalled == topCall.via # "none"

\* The k of a call: the count of a direct call, the number the limit
\* parameter of a request spells (Null when it spells none).
AskedFor ==
  IF topCall.via = "service" THEN Some(topCall.count)
  ELSE IF topCall.limit = Null THEN Null
  ELSE ParseIntOrNaN(Get(topCall.limit))

\* C21: in every snapshot getTopPlayers returns the ranks are 1, 2, 3, ... in
\* order, the scores never increase from one row to the next, and two
\* neighbouring rows of equal score stand in descending byte order of their
\* player_id (the order of ZRANGE ... REV).
C21_RanksAndDescendingTies ==
  TopCalled =>
    LET data == topCall.data
    IN \A i \in 1..Len(data) :
         /\ data[i].rank = i
         /\ i < Len(data) =>
              /\ data[i].score >= data[i + 1].score
              /\ data[i].score = data[i + 1].score =>
                   LexLess(data[i + 1].player_id, data[i].player_id)

\* C21 as stated: rows of equal score stand in ascending order of their
\* player_id.
C21_RanksAndAscendingTies ==
  TopCalled =>
    LET data == topCall.data
    IN \A i \in 1..Len(data) :
         /\ data[i].rank = i
         /\ i < Len(data) =>
              /\ data[i].score >= data[i + 1].score
              /\ data[i].score = data[i + 1].score =>
                   LexLess(data[i].player_id, data[i + 1].player_id)

\* A snapshot of three rows, a higher score first and then two equal ones.
C21_Witness ==
  /\ TopCalled
  /\ Len(topCall.data) = 3
  /\ topCall.data[1].score > topCall.data[2].score
  /\ topCall.data[2].score = topCall.data[3].score

C23_NonPositiveIsEmpty ==
  (TopCalled /\ AskedFor # Null /\ Get(AskedFor) <= 0) =>
    topCall.data = <<>>

-----------------------------------------------------------------------------
(* Removal from the store *)

\* The step is a removePlayer call, and the participant it removes.
RemoveCalled ==
  /\ Len(storeLog') = Len(storeLog) + 1
  /\ storeLog'[Len(storeLog')].op = "removePlayer"
Removed == storeLog'[Len(storeLog')].playerId

\* What a removePlayer(p) call does: afterwards p has neither rank nor score,
\* every other participant has the score it had, a p that was no member
\* leaves the set as it was, and so does a second removePlayer(p) in a row.
RemoveStep ==
  RemoveCalled =>
    /\ getPlayerRank(leaderboard', Removed) = Null
    /\ getPlayerScore(leaderboard', Removed) = Null
    /\ \A q \in StorePlayers \ {Removed} :
         getPlayerScore(leaderboard', q) = getPlayerScore(leaderboard, q)
    /\ getPlayerScore(leaderboard, Removed) = Null => leaderboard' = leaderboard
    /\ (/\ Len(storeLog) > 0
        /\ storeLog[Len(storeLog)].op = "removePlayer"
        /\ storeLog[Len(storeLog)].playerId = Removed)
         => leaderboard' = leaderboard

\* C24: removePlayer is idempotent and changes nothing for a non-member; after
\* removePlayer(p) both getPlayerRank(p) and getPlayerScore(p) are null and
\* the other participants keep their scores; in every state getPlayerRank(p)
\* is null exactly when getPlayerScore(p) is null.
C24_RemoveLeavesNoRankNoScore ==
  /\ [](\A q \in StorePlayers :
          (getPlayerRank(leaderboard, q) = Null)
            <=> (getPlayerScore(leaderboard, q) = Null))
  /\ [][RemoveStep]_vars

\* Two participants were added and the first of them was removed.
C24_Witness ==
  /\ Len(storeLog) = 3
  /\ storeLog[1].op = "addScore"
  /\ storeLog[2].op = "addScore"
  /\ storeLog[3].op = "removePlayer"
  /\ storeLog[1].playerId = storeLog[3].playerId
  /\ storeLog[2].playerId # storeLog[3].playerId
  /\ DOMAIN leaderboard = {storeLog[2].playerId}

-----------------------------------------------------------------------------
(* The fingerprint of a snapshot *)

\* The ordered (player_id, score) pairs of a snapshot.
PairsOf(lb) == [i \in 1..Len(lb) |-> <<lb[i].player_id, lb[i].score>>]

\* Two snapshots with the same player_ids in the same order.
SameMembers(x, y) ==
  /\ Len(x) = Len(y)
  /\ \A i \in 1..Len(x) : x[i].player_id = y[i].player_id

\* C25: generateChecksum depends on the ordered (player_id, score) pairs only:
\* two snapshots with the same pairs in the same order have the same checksum
\* whatever their rank and username fields, and two snapshots with the same
\* player_ids in the same order of which some score differs have different
\* checksums.
C25_FingerprintOfPairs ==
  fingerprint.sums # Null =>
    LET x == fingerprint.left
        y == fingerprint.right
        sums == Get(fingerprint.sums)
    IN /\ PairsOf(x) = PairsOf(y) => sums[1] = sums[2]
       /\ (SameMembers(x, y) /\ PairsOf(x) # PairsOf(y)) => sums[1] # sums[2]

\* The checksums of two two-row snapshots that differ in rank, in username and
\* in one score (7 against 70) were computed.
C25_Witness ==
  /\ fingerprint.sums # Null
  /\ Len(fingerprint.left) = 2
  /\ SameMembers(fingerprint.left, fingerprint.right)
  /\ fingerprint.left[1].score = 7
  /\ fingerprint.right[1].score = 70
  /\ fingerprint.left[2].score = fingerprint.right[2].score
  /\ fingerprint.left[1].rank # fingerprint.right[1].rank
  /\ fingerprint.left[2].username # fingerprint.right[2].username

-----------------------------------------------------------------------------
(* Heartbeat passes *)

\* The step is a sendHeartbeat call.
HeartbeatPass ==
  /\ hubOps' = hubOps + 1
  /\ broadcastCalls' = broadcastCalls

\* What one sendHeartbeat pass does to each connection.
HeartbeatStep ==
  HeartbeatPass =>
    \A ws \in Sockets :
      IF ws \in clients /\ readyState[ws] = "OPEN"
           /\ ws \notin lastHeartbeat'.raised
        THEN /\ inbox'[ws] = Append(inbox[ws], "heartbeat")
             /\ ws \in clients'
        ELSE /\ inbox'[ws] = inbox[ws]
             /\ ws \notin clients'

\* C26: after a sendHeartbeat pass every connection that was registered and
\* found not OPEN, or whose send raised, is no longer registered; every
\* registered OPEN connection whose send did not raise was sent exactly one
\* heartbeat and stays registered, whatever happened to the others.
C26_HeartbeatRemovesFailed == [][HeartbeatStep]_vars

\* After a single heartbeat pass: one connection got the heartbeat, the send
\* to another raised, and a third had been found closing.
C26_Witness ==
  /\ hubOps = 1
  /\ broadcastCalls = 0
  /\ ~wssClosed
  /\ \E ws \in clients : inbox[ws] = <<"connected", "heartbeat">>
  /\ \E ws \in lastHeartbeat.raised :
       ws \notin clients /\ readyState[ws] = "OPEN"
  /\ \E ws \in Sockets : ws \notin clients /\ readyState[ws] = "CLOSING"

-----------------------------------------------------------------------------
(* Closing the hub *)

\* The step is the close() call; what the claim says of it: no connection
\* that was registered is still OPEN afterwards, and none is registered.
CloseStep ==
  (~wssClosed /\ wssClosed') =>
    /\ \A ws \in clients : readyState'[ws] # "OPEN"
    /\ clients' = {}

\* C27: when close() returns every connection that was registered has been
\* closed, also the ones whose shutdown notice could not be sent; the registry
\* is empty and stays empty, no connection being added afterwards.
C27_CloseClosesEveryone ==
  /\ [](wssClosed => clients = {})
  /\ [][CloseStep]_vars

-----------------------------------------------------------------------------
(* Forced termination *)

\* C28: once a shutdown signal has arrived the process eventually exits,
\* whether or not the awaited steps of shutdown ever complete.
C28_ShutdownEventuallyExits ==
  (shutdownPc # "running") ~> (shutdownPc = "exited")

-----------------------------------------------------------------------------
(* Convergence of the published leaderboard *)

\* The last published update shows the current top of the sorted set.
PublishedIsCurrent ==
  IF published = <<>>
    THEN leaderboard = <<>>
    ELSE Rows(published[Len(published)].msg.leaderboard)
           = getTopPlayers(leaderboard, TopCount)

\* C29: once submissions have stopped, the last published update eventually
\* shows the current top of the sorted set and keeps showing it: a change
\* whose message was dropped by the throttle gate is published later.
C29_PublishedEventuallyCurrent == <>[]PublishedIsCurrent

-----------------------------------------------------------------------------
(* Enrichment failures *)

\* C30: a call whose enrichment could not store a user in the cache does not
\* end with the error: it goes on to cache and publish its update.
C30_CacheFailureNotFatal ==
  \A c \in Calls : call[c].cacheUserFailed => pc[c] # "threw"

-----------------------------------------------------------------------------
(* Backoff delays *)

\* The step is the catch block of a rejected saveBatch call.
RejectedStep == flushPc = "saving" /\ attempt' = attempt + 1

\* After the failed attempt number attempt' the loop sleeps before attempt
\* i = attempt' + 1 when i <= maxRetries, for retryDelay * 2^(i-2), and takes
\* no delay otherwise; no other step sleeps.
BackoffStep ==
  IF RejectedStep
    THEN LET i == attempt' + 1
         IN IF i <= maxRetries
              THEN /\ i >= 2
                   /\ delays' = Append(delays, retryDelay * Pow2(i - 2))
                   /\ flushPc' = "sleeping"
              ELSE /\ delays' = delays
                   /\ flushPc' = "deadLettered"
    ELSE delays' = delays

\* C31: the delay taken before retry attempt i (2 <= i <= maxRetries) of a
\* batch is retryDelay * 2^(i-2), 1000 ms and then 2000 ms; after the last
\* failed attempt the dead-letter write follows without a delay.
C31_BackoffDoubles ==
  /\ [](\A k \in DOMAIN delays : delays[k] \in {1000, 2000})
  /\ [][BackoffStep]_vars

\* A batch failed three times: it slept 1000 and 2000 ms and is dead-lettered.
C31_Witness ==
  /\ flushPc = "deadLettered"
  /\ delays = <<1000, 2000>>
  /\ Len(sinkCalls) = 3

-----------------------------------------------------------------------------
(* The dead-letter record *)

\* The number of saveBatch calls made with the batch b.
SinkAttempts(b) == Occurrences(sinkCalls, b)

\* C32: every record of the dead-letter file holds the entries of a batch that
\* was handed to the sink maxRetries times, and its count field is the number
\* of those entries (not the number of attempts).
C32_RecordCountsEntries ==
  \A k \in DOMAIN dlq :
    /\ dlq[k].submissions \in Range(swapped)
    /\ SinkAttempts(dlq[k].submissions) = maxRetries
    /\ dlq[k].count = Len(dlq[k].submissions)

\* C32 as stated: the count of every record is the number of sink attempts
\* made for its batch.
C32_RecordCountsAttempts ==
  \A k \in DOMAIN dlq :
    /\ dlq[k].submissions \in Range(swapped)
    /\ dlq[k].count = SinkAttempts(dlq[k].submissions)

\* A batch of two entries was dead-lettered after three attempts.
C32_Witness ==
  \E k \in DOMAIN dlq :
    /\ Len(dlq[k].submissions) = 2
    /\ SinkAttempts(dlq[k].submissions) = 3

-----------------------------------------------------------------------------
(* Size of the batches handed to the sink *)

\* C33: every batch handed to dbService.saveBatch holds at least one and at
\* most batchSize entries.
C33_SinkBatchesBounded ==
  \A k \in DOMAIN sinkCalls :
    /\ Len(sinkCalls[k]) >= 1
    /\ Len(sinkCalls[k]) <= batchSize

-----------------------------------------------------------------------------
(* Termination of a flush *)

\* C34: every flush that starts eventually ends and clears saveInProgress,
\* whatever the sink does, a sink that never responds included.
C34_FlushEventuallyEnds == saveInProgress ~> ~saveInProgress

-----------------------------------------------------------------------------
(* The two signals of a submission *)

\* C35: for a request that has ended and whose score was upserted, a failure
\* to publish one of the two messages did not keep the other from being
\* published.
C35_SignalsIndependent ==
  \A r \in Requests :
    (requests[r].pc \in {"202", "500"} /\ requests[r].upserted) =>
      /\ requests[r].failedAt = "publishScoreSubmission"
           => requests[r].sentChange
      /\ requests[r].failedAt = "publishLeaderboardChange"
           => requests[r].sentSubmission

-----------------------------------------------------------------------------
(* The cached snapshot and the updates sent *)

NoCallInProgress == \A c \in Calls : pc[c] \notin Awaiting

\* C36: when no call stands between its cache write and its publish, the
\* checksum of the cached leaderboard is the checksum of an update that was
\* handed to publishLeaderboardUpdate and accepted.
C36_CachedWasPublished ==
  (NoCallInProgress /\ getCachedLeaderboard(cacheKey) # Null) =>
    \E i \in 1..Len(published) :
      published[i].msg.checksum = Get(getCachedLeaderboard(cacheKey)).checksum

-----------------------------------------------------------------------------
(* The two keys written by a call *)

\* Every call made so far returned, and none of them ended with an error.
AllCallsReturned ==
  /\ \A c \in Calls : pc[c] \in Returned \cup {"idle"}
  /\ signals = Cardinality({c \in Calls : pc[c] # "idle"})

\* C37: when every call made so far returned without an error, the timestamp
\* key is set exactly when the cache key is, and it holds the timestamp of
\* the cached leaderboard.
C37_TimestampIsOfCached ==
  AllCallsReturned =>
    /\ getCachedLeaderboard(cacheKey) # Null <=> getLastUpdateTimestamp(tsKey) # Null
    /\ getCachedLeaderboard(cacheKey) # Null =>
         getLastUpdateTimestamp(tsKey)
           = Some(Get(getCachedLeaderboard(cacheKey)).timestamp)

-----------------------------------------------------------------------------
(* Calls that return without publishing *)

ReturnedNone == {"throttled", "unchanged"}

\* A step of a call that ends it without an update.
ReturnsNoneStep ==
  \E c \in Calls :
    /\ pc'[c] \in ReturnedNone
    /\ pc'[c] # pc[c] \/ call'[c] # call[c]

NoneStepWritesNothing == ReturnsNoneStep => UNCHANGED <<cacheKey, tsKey>>

\* C38: a call that returned without an update, throttled or on a checksum
\* match, wrote neither the cache key nor the timestamp key, and the step
\* that ends it leaves both keys as they were.
C38_NoneWritesNothing ==
  /\ [](\A c \in Calls :
          pc[c] \in ReturnedNone =>
            call[c].wroteCache = Null /\ call[c].wroteTs = Null)
  /\ [][NoneStepWritesNothing]_vars

\* A call returned on a checksum match with a clock later than the recorded
\* timestamp, which it left in place.
C38_Witness ==
  \E c \in Calls :
    /\ pc[c] = "unchanged"
    /\ getLastUpdateTimestamp(tsKey) # Null
    /\ call[c].currentTime > Get(getLastUpdateTimestamp(tsKey))

-----------------------------------------------------------------------------
(* Order of the entries handed to the sink *)

RECURSIVE FlattenBatches(_)
FlattenBatches(batches) ==
  IF Len(batches) = 0 THEN <<>>
  ELSE batches[1] \o FlattenBatches(Tail(batches))

\* The batches of a sequence of sink calls in the order of their first call:
\* a call that repeats the argument of the call before it is left out.
RECURSIVE FirstAttempts(_)
FirstAttempts(calls) ==
  IF Len(calls) <= 1 THEN calls
  ELSE LET front == FirstAttempts(SubSeq(calls, 1, Len(calls) - 1))
       IN IF calls[Len(calls)] = calls[Len(calls) - 1]
            THEN front ELSE Append(front, calls[Len(calls)])

\* Submissions are numbered in the order addToBatch accepted them.
InAcceptOrder(ids) == \A i, j \in DOMAIN ids : i < j => ids[i] < ids[j]

\* C39: the entries swapped out, batch after batch and then the pending ones,
\* are in the order they were accepted; the sink calls are the swapped-out
\* batches in that order, each one handed over unchanged one or more times
\* before the next.
C39_SinkInAcceptOrder ==
  /\ InAcceptOrder(FlattenBatches(swapped) \o batch)
  /\ FirstAttempts(sinkCalls) = swapped

\* Two batches of two or more entries went to the sink and one was retried.
C39_Witness ==
  /\ Len(swapped) >= 2
  /\ \A i \in DOMAIN swapped : Len(swapped[i]) >= 2
  /\ Len(sinkCalls) > Len(swapped)
  /\ sinkCalls[1] = sinkCalls[2]

-----------------------------------------------------------------------------
(* The text that is hashed *)

\* C40: two snapshots whose ordered (player_id, score) pairs differ, in
\* membership, in order or in a score, have different '|'-joined
\* 'player_id:score' texts and so different checksums.
C40_DistinctSnapshotsDistinctText ==
  fingerprint.sums # Null =>
    LET x == fingerprint.left
        y == fingerprint.right
        sums == Get(fingerprint.sums)
    IN PairsOf(x) # PairsOf(y) =>
         /\ ChecksumData(x) # ChecksumData(y)
         /\ sums[1] # sums[2]

=============================================================================
